---- MODULE Spec2Model ----
(***************************************************************************)
(* The scrape -> summarize -> persona-context pipeline of tavus-demo:      *)
(* the flat-file job store (src/lib/storage.ts), the start routes          *)
(* (src/app/api/scrape/start/route.ts), the status route and its           *)
(* summarization task (src/app/api/scrape/status/[jobId]/route.ts) and the *)
(* batch UI (src/app/page.tsx).                                            *)
(*                                                                         *)
(* Every server request and background task is a process p with a program  *)
(* counter pc[p].  One action is the code that runs between two awaits:    *)
(* Node runs it without preemption.  Each await on the file system or on   *)
(* an external service is a suspension point at which any other process    *)
(* may run.                                                                *)
(*                                                                         *)
(* Texts (URLs, markdown, summaries, contexts) are sequences of tokens;    *)
(* the empty sequence is the empty string.  An optional field is a         *)
(* sequence of length 0 (undefined / null) or 1.                           *)
(***************************************************************************)
EXTENDS Integers, Sequences, FiniteSets, TLC

\* ------------------------------------------------------------------ bounds
MaxClock == 2      \* Date.now() takes the values 1..MaxClock
MaxStarts == 1     \* start requests (POST /api/scrape/start) of the server specification
MaxUrls == 2       \* URLs in the batch of the batch specification
MaxGets == 2       \* status requests (GET /api/scrape/status/[jobId]) per behaviour
MaxCallers == 2    \* direct callers of the store in the store specifications
MaxPages == 1      \* pages in one batch-scrape result
MaxCalls == 3      \* store calls per behaviour of the store specifications
MaxPolls == 2      \* status checks started by the page's polling interval
MaxCliPages == 2   \* page URLs the user gives the command-line tool in batch mode

VARIABLES
  variant,       \* the start route that is deployed: "crawl", "single" or
                 \* "summarize" (part_002)
  overlap,       \* TRUE: calls and requests may overlap in time
  now,           \* the server clock, Date.now(), in milliseconds
  jobsFile,      \* data/scraping-jobs.json
  personasFile,  \* data/persona-contexts.json
  pc,            \* per process: where it is suspended
  ret,           \* per process: where it continues when the store call returns
  req,           \* per process: the request's input (websiteUrl or jobId)
  job,           \* per process: the job object it holds in memory
  pctx,          \* per process: the persona context object it is saving
  wbuf,          \* per process: the JSON text handed to fs.writeFile
  sum,           \* per process: summarizePages' locals (loop index, summaries)
  resp,          \* per process: the HTTP response it has returned
  calls,         \* the number of requests and store calls begun so far
  extFailure,    \* history: the external-client failure a process has met
  savedJobs,     \* history: per job id, the jobs whose save call has returned
  savedCtxs,     \* history: per URL, the contexts whose save call has returned
  durableJobs,   \* history: the last complete content written to jobsFile
  durableCtxs,   \* history: the last complete content written to personasFile
  everCompleted, \* history: the URLs of the jobs ever written as completed
  urlList,       \* page state: the URLs to analyse
  isScraping,    \* page state
  uiError,       \* page state: error
  scrapingJobs,  \* page state
  batch,         \* startScrapingAll's Promise.all: "off", "editing", "running",
                 \* "settled" or "rejected"; "checking" during a status check
  fetch,         \* per URL of the batch: where its async function is
  showConversation, \* page state
  personaId,     \* page state
  assembly,      \* createPersonaFromAllScrapedContent: where it is suspended,
                 \* its jobs argument and its combinedContexts
  polls,         \* the number of status checks the polling interval has started
  tavus,         \* the browser's call of TavusAPI.makeRequest: where it is
                 \* suspended, its endpoint, the response and the outcome
  cli,           \* the command-line tool's createContext: where it is suspended,
                 \* its inputs, the pages scraped, the context file, the exit code
  checks,        \* per status check of the polling interval: the scrapingJobs its
                 \* closure holds and where each job's fetch is
  interval,      \* whether the polling effect has an interval set
  personaCalls,  \* the number of calls of tavusAPI.createPersona by the page
  component      \* the component that polls: "Home" (the page) or "PersonaManager",
                 \* whose scrapingJob is the one element of scrapingJobs, if any

pageVars == <<showConversation, personaId, assembly, polls, tavus, cli, component, checks, interval,
             personaCalls>>
uiVars == <<urlList, isScraping, uiError, scrapingJobs, batch, fetch, pageVars>>

vars == <<variant, overlap, now, jobsFile, personasFile, pc, ret, req, job, pctx,
          wbuf, sum, resp, calls, extFailure, savedJobs, savedCtxs, durableJobs,
          durableCtxs, everCompleted, uiVars>>

\* --------------------------------------------------------------- processes
MaxOf(a, b) == IF a >= b THEN a ELSE b
StartProcs == 1..MaxStarts
GetProcs == (MaxStarts + 1)..(MaxStarts + MaxGets)
Callers == 1..MaxCallers
BatchStart(i) == i               \* the server process of URL i's start request
BatchGet(i) == MaxUrls + i       \* the server process of URL i's status request
PollGet(r, i) == (r - 1) * MaxUrls + i   \* URL i's status request of check r
Procs == 1..MaxOf(MaxOf(MaxStarts + MaxGets, MaxCallers), MaxOf(2, MaxPolls) * MaxUrls)

\* ------------------------------------------------------------------- texts
None == <<>>
Some(x) == <<x>>
Truthy(s) == s # <<>>          \* JS: a non-empty string is truthy

UrlA == <<"https:", "//", "a.com">>
UrlB == <<"https:", "//", "b.com">>
Urls == {UrlA, UrlB}
\* what a client can put in the request body: no URL, a string without a
\* scheme, a scheme without a host, and two absolute URLs
Inputs == {<<>>, <<"a.com">>, <<"https:", "//">>, UrlA, UrlB}

\* new URL(s) succeeds exactly on a scheme followed by a host
ParsesAsUrl(s) == Len(s) = 3 /\ s[1] = "https:" /\ s[2] = "//" /\ s[3] # ""

\* `job_${Date.now()}`
JobId(t) == <<"job_", t>>
JobIds == {JobId(t) : t \in 1..MaxClock}

\* new Date() in memory, and the ISO string JSON.stringify turns it into
DateObj(t) == <<"Date", t>>
IsoString(t) == <<"iso", t>>
ToJsonDate(d) == IsoString(d[2])

\* ---------------------------------------------------------------- records
NewJob(id, url, st, t) ==
  [id |-> id, websiteUrl |-> url, status |-> st, pages |-> <<>>,
   finalContext |-> None, error |-> None, batchScrapeId |-> None,
   createdAt |-> DateObj(t), updatedAt |-> DateObj(t)]

NoJob == NewJob(JobId(0), <<>>, "none", 0)

NewContext(url, text, summaries, t) ==
  [websiteUrl |-> url, context |-> text, summaries |-> summaries,
   createdAt |-> DateObj(t)]

NoContext == NewContext(<<>>, <<>>, <<>>, 0)

\* JSON.stringify followed by JSON.parse: dates come back as ISO strings,
\* everything else as it was
JsonJob(j) == [j EXCEPT !.createdAt = ToJsonDate(@), !.updatedAt = ToJsonDate(@)]
JsonContext(c) == [c EXCEPT !.createdAt = ToJsonDate(@)]
JsonJobs(jobs) == [i \in 1..Len(jobs) |-> JsonJob(jobs[i])]
JsonContexts(cs) == [i \in 1..Len(cs) |-> JsonContext(cs[i])]

Terminal(st) == st \in {"completed", "error"}

\* ------------------------------------------------------------------- files
\* A file is absent (never written), torn (opened for writing and truncated,
\* not yet filled) or ok with the array last written.
AbsentFile == [state |-> "absent", data |-> <<>>]
TornFile == [state |-> "torn", data |-> <<>>]
OkFile(data) == [state |-> "ok", data |-> data]

\* getAllScrapingJobs / getAllPersonaContexts: readFile and JSON.parse, and
\* the empty array when either throws
getAllScrapingJobs(file) == IF file.state = "ok" THEN file.data ELSE <<>>
getAllPersonaContexts(file) == IF file.state = "ok" THEN file.data ELSE <<>>

\* Array.prototype.findIndex, 1-based; 0 is JavaScript's -1
findJobIndex(jobs, id) ==
  IF \E i \in 1..Len(jobs) : jobs[i].id = id
    THEN CHOOSE i \in 1..Len(jobs) :
           jobs[i].id = id /\ \A k \in 1..(i - 1) : jobs[k].id # id
    ELSE 0

findContextIndex(cs, url) ==
  IF \E i \in 1..Len(cs) : cs[i].websiteUrl = url
    THEN CHOOSE i \in 1..Len(cs) :
           cs[i].websiteUrl = url /\ \A k \in 1..(i - 1) : cs[k].websiteUrl # url
    ELSE 0

\* a save that never looks for the id: it always pushes
UpsertJob_AlwaysPush(jobs, j) == Append(jobs, j)

\* the array saveScrapingJob writes: replace at the index found, else push
UpsertJob(jobs, j) ==
  LET i == findJobIndex(jobs, j.id)
  IN IF i >= 1 THEN [jobs EXCEPT ![i] = j] ELSE Append(jobs, j)

UpsertContext_AlwaysPush(cs, c) == Append(cs, c)

UpsertContext(cs, c) ==
  LET i == findContextIndex(cs, c.websiteUrl)
  IN IF i >= 1 THEN [cs EXCEPT ![i] = c] ELSE Append(cs, c)

\* getScrapingJob / getPersonaContext: the first match, or null
getScrapingJob(file, id) ==
  LET jobs == getAllScrapingJobs(file)
      i == findJobIndex(jobs, id)
  IN IF i >= 1 THEN Some(jobs[i]) ELSE None

getPersonaContext(file, url) ==
  LET cs == getAllPersonaContexts(file)
      i == findContextIndex(cs, url)
  IN IF i >= 1 THEN Some(cs[i]) ELSE None

\* --------------------------------------------------------------- responses
NoResponse == [code |-> 0, jobId |-> None, job |-> None]
Response(code) == [code |-> code, jobId |-> None, job |-> None]
StartedResponse(id) == [code |-> 200, jobId |-> Some(id), job |-> None]
JobResponse(j) == [code |-> 200, jobId |-> None, job |-> Some(JsonJob(j))]

NoSum == [i |-> 0, summaries |-> <<>>, input |-> <<>>]

\* createPersonaFromAllScrapedContent has not been called
NoAssembly == [pc |-> "off", jobs |-> <<>>, combined |-> <<>>]

\* a status check the interval has not started
NoCheck == [jobs |-> <<>>, fetch |-> [i \in 1..MaxUrls |-> "none"]]

\* the command-line tool has not been started
NoRun == [pc |-> "idle", mode |-> "", pages |-> <<>>, i |-> 0, attempted |-> <<>>,
          scrapedPages |-> <<>>, context |-> <<>>, failure |-> "", exit |-> <<>>]

\* makeRequest has not been called
NoRequest == [pc |-> "idle", endpoint |-> <<>>, response |-> <<>>, result |-> <<>>]

\* ------------------------------------------------------------ initial state
InitCommon ==
  /\ now = 1
  /\ jobsFile = AbsentFile
  /\ personasFile = AbsentFile
  /\ pc = [p \in Procs |-> "idle"]
  /\ ret = [p \in Procs |-> "idle"]
  /\ req = [p \in Procs |-> <<>>]
  /\ job = [p \in Procs |-> NoJob]
  /\ pctx = [p \in Procs |-> NoContext]
  /\ wbuf = [p \in Procs |-> <<>>]
  /\ sum = [p \in Procs |-> NoSum]
  /\ resp = [p \in Procs |-> NoResponse]
  /\ calls = 0
  /\ extFailure = [p \in Procs |-> None]
  /\ savedJobs = [id \in JobIds |-> {}]
  /\ savedCtxs = [u \in Urls |-> {}]
  /\ durableJobs = <<>>
  /\ durableCtxs = <<>>
  /\ everCompleted = {}
  /\ urlList = <<>>
  /\ isScraping = FALSE
  /\ uiError = None
  /\ scrapingJobs = <<>>
  /\ fetch = [i \in 1..MaxUrls |-> "none"]
  /\ showConversation = FALSE
  /\ personaId = None
  /\ assembly = NoAssembly
  /\ polls = 0
  /\ tavus = NoRequest
  /\ cli = NoRun
  /\ checks = [r \in 1..MaxPolls |-> NoCheck]
  /\ interval = FALSE
  /\ personaCalls = 0
  /\ component = "Home"

\* ------------------------------------------------------------------- clock
\* Time is observed through the job ids: the clock advances while a start
\* request has still to read it.
Tick ==
  /\ now < MaxClock
  /\ \/ \E p \in Procs : pc[p] = "post_map"
     \/ batch = "off" /\ \E p \in StartProcs : pc[p] = "idle"
     \/ \E i \in 1..MaxUrls : fetch[i] = "start_sent"
  /\ now' = now + 1
  /\ UNCHANGED <<uiVars, variant, overlap, jobsFile, personasFile, pc, ret, req, job, pctx,
                 wbuf, sum, resp, calls, extFailure, savedJobs, savedCtxs, durableJobs, durableCtxs, everCompleted>>

\* ------------------------------------------------- saveScrapingJob, by steps
\* await ensureDataDir(); await getAllScrapingJobs(); findIndex; replace or
\* push; JSON.stringify: the text to write is fixed here
SaveJobRead(p) ==
  /\ pc[p] = "save_read"
  /\ wbuf' = [wbuf EXCEPT ![p] = JsonJobs(UpsertJob(getAllScrapingJobs(jobsFile), job[p]))]
  /\ pc' = [pc EXCEPT ![p] = "save_open"]
  /\ UNCHANGED <<uiVars, variant, overlap, now, jobsFile, personasFile, ret, req, job, pctx,
                 sum, resp, calls, extFailure, savedJobs, savedCtxs, durableJobs, durableCtxs, everCompleted>>

\* fs.writeFile opens the file with flag 'w', which truncates it
SaveJobOpen(p) ==
  /\ pc[p] = "save_open"
  /\ jobsFile' = TornFile
  /\ pc' = [pc EXCEPT ![p] = "save_write"]
  /\ UNCHANGED <<uiVars, variant, overlap, now, personasFile, ret, req, job, pctx, wbuf,
                 sum, resp, calls, extFailure, savedJobs, savedCtxs, durableJobs, durableCtxs, everCompleted>>

\* fs.writeFile writes the text and resolves; the caller continues at ret[p]
SaveJobWrite(p) ==
  /\ pc[p] = "save_write"
  /\ jobsFile' = OkFile(wbuf[p])
  /\ durableJobs' = wbuf[p]
  /\ everCompleted' = everCompleted \cup
       {wbuf[p][i].websiteUrl : i \in {k \in 1..Len(wbuf[p]) : wbuf[p][k].status = "completed"}}
  /\ wbuf' = [wbuf EXCEPT ![p] = <<>>]
  /\ pc' = [pc EXCEPT ![p] = ret[p]]
  /\ UNCHANGED <<uiVars, variant, overlap, now, personasFile, ret, req, job, pctx,
                 sum, resp, calls, extFailure, savedJobs, savedCtxs, durableCtxs>>

\* ---------------------------------------------- savePersonaContext, by steps
SaveContextRead(p) ==
  /\ pc[p] = "ctx_read"
  /\ wbuf' = [wbuf EXCEPT ![p] =
                JsonContexts(UpsertContext(getAllPersonaContexts(personasFile), pctx[p]))]
  /\ pc' = [pc EXCEPT ![p] = "ctx_open"]
  /\ UNCHANGED <<uiVars, variant, overlap, now, jobsFile, personasFile, ret, req, job, pctx,
                 sum, resp, calls, extFailure, savedJobs, savedCtxs, durableJobs, durableCtxs, everCompleted>>

SaveContextOpen(p) ==
  /\ pc[p] = "ctx_open"
  /\ personasFile' = TornFile
  /\ pc' = [pc EXCEPT ![p] = "ctx_write"]
  /\ UNCHANGED <<uiVars, variant, overlap, now, jobsFile, ret, req, job, pctx, wbuf,
                 sum, resp, calls, extFailure, savedJobs, savedCtxs, durableJobs, durableCtxs, everCompleted>>

SaveContextWrite(p) ==
  /\ pc[p] = "ctx_write"
  /\ personasFile' = OkFile(wbuf[p])
  /\ durableCtxs' = wbuf[p]
  /\ wbuf' = [wbuf EXCEPT ![p] = <<>>]
  /\ pc' = [pc EXCEPT ![p] = ret[p]]
  /\ UNCHANGED <<uiVars, variant, overlap, now, jobsFile, ret, req, job, pctx,
                 sum, resp, calls, extFailure, savedJobs, savedCtxs, durableJobs, everCompleted>>

StoreStep(p) ==
  \/ SaveJobRead(p)
  \/ SaveJobOpen(p)
  \/ SaveJobWrite(p)
  \/ SaveContextRead(p)
  \/ SaveContextOpen(p)
  \/ SaveContextWrite(p)

\* --------------------------------------------------- the store, called alone
\* The arguments a caller may save: a job in an early and in a final state,
\* under each id and URL.
JobArgs ==
  {NewJob(JobId(t), UrlA, st, 1) : t \in 1..MaxClock, st \in {"scraping", "completed"}}
ContextArgs ==
  {NewContext(u, text, <<>>, 1) : u \in Urls, text \in {<<"ctx1">>, <<"ctx2">>}}

MayCall(p) ==
  /\ pc[p] = "idle"
  /\ calls < MaxCalls
  /\ overlap \/ \A q \in Procs : pc[q] = "idle"

CallSaveJob(p, j) ==
  /\ MayCall(p)
  /\ calls' = calls + 1
  /\ job' = [job EXCEPT ![p] = j]
  /\ pc' = [pc EXCEPT ![p] = "save_read"]
  /\ ret' = [ret EXCEPT ![p] = "job_saved"]
  /\ UNCHANGED <<uiVars, variant, overlap, now, jobsFile, personasFile, req, pctx, wbuf,
                 sum, resp, extFailure, savedJobs, savedCtxs, durableJobs, durableCtxs, everCompleted>>

\* the save call returns to its caller; with one call at a time the history
\* keeps the job most recently saved under the id
ReturnSaveJob(p) ==
  /\ pc[p] = "job_saved"
  /\ savedJobs' = [savedJobs EXCEPT ![job[p].id] =
                     IF overlap THEN @ \cup {JsonJob(job[p])} ELSE {JsonJob(job[p])}]
  /\ pc' = [pc EXCEPT ![p] = "idle"]
  /\ ret' = [ret EXCEPT ![p] = "idle"]
  /\ job' = [job EXCEPT ![p] = NoJob]
  /\ UNCHANGED <<uiVars, variant, overlap, now, jobsFile, personasFile, req, pctx,
                 wbuf, sum, resp, calls, extFailure, savedCtxs, durableJobs, durableCtxs, everCompleted>>

CallSaveContext(p, c) ==
  /\ MayCall(p)
  /\ calls' = calls + 1
  /\ pctx' = [pctx EXCEPT ![p] = c]
  /\ pc' = [pc EXCEPT ![p] = "ctx_read"]
  /\ ret' = [ret EXCEPT ![p] = "ctx_saved"]
  /\ UNCHANGED <<uiVars, variant, overlap, now, jobsFile, personasFile, req, job, wbuf,
                 sum, resp, extFailure, savedJobs, savedCtxs, durableJobs, durableCtxs, everCompleted>>

ReturnSaveContext(p) ==
  /\ pc[p] = "ctx_saved"
  /\ savedCtxs' = [savedCtxs EXCEPT ![pctx[p].websiteUrl] =
                     IF overlap THEN @ \cup {JsonContext(pctx[p])}
                                ELSE {JsonContext(pctx[p])}]
  /\ pc' = [pc EXCEPT ![p] = "idle"]
  /\ ret' = [ret EXCEPT ![p] = "idle"]
  /\ pctx' = [pctx EXCEPT ![p] = NoContext]
  /\ UNCHANGED <<uiVars, variant, overlap, now, jobsFile, personasFile, req, job,
                 wbuf, sum, resp, calls, extFailure, savedJobs, durableJobs, durableCtxs, everCompleted>>

\* the read-only status route: getScrapingJob, 404 when it returns null
StatusResponse(file, id) ==
  LET found == getScrapingJob(file, id)
  IN IF found = None THEN Response(404) ELSE JobResponse(found[1])

ReadStatus(p, id) ==
  /\ MayCall(p)
  /\ calls' = calls + 1
  /\ resp' = [resp EXCEPT ![p] = StatusResponse(jobsFile, id)]
  /\ req' = [req EXCEPT ![p] = id]
  /\ UNCHANGED <<uiVars, variant, overlap, now, jobsFile, personasFile, pc, ret, job, pctx,
                 wbuf, sum, extFailure, savedJobs, savedCtxs, durableJobs, durableCtxs, everCompleted>>

StoreNext ==
  \/ \E p \in Callers : StoreStep(p)
  \/ \E p \in Callers, j \in JobArgs : CallSaveJob(p, j)
  \/ \E p \in Callers : ReturnSaveJob(p)
  \/ \E p \in Callers, c \in ContextArgs : CallSaveContext(p, c)
  \/ \E p \in Callers : ReturnSaveContext(p)
  \/ \E p \in Callers, id \in JobIds : ReadStatus(p, id)

InitStore == InitCommon /\ variant = "single" /\ overlap = TRUE /\ batch = "off"
InitStoreSeq == InitCommon /\ variant = "single" /\ overlap = FALSE /\ batch = "off"

\* the store with overlapping calls, and with one call at a time
SpecStore == InitStore /\ [][StoreNext]_vars
SpecStoreSeq == InitStoreSeq /\ [][StoreNext]_vars

\* ------------------------------------------------------ external services
\* What the external clients can answer.  A failing call throws an Error whose
\* message is recorded; the messages are kept apart by the call that threw.
MapError == <<"map failed">>
BatchError == <<"batch scrape failed">>
ScrapeError == <<"Scraping failed">>
StatusError == <<"batch status failed">>
BatchFailed == <<"batch scrape failed">>
LlmError == <<"completion failed">>

\* one page of a batch-scrape result: item.metadata?.url || '', item.markdown || ''
PageUrl(i) == <<"page", ToString(i)>>
Page(i, md) == [url |-> PageUrl(i), markdown |-> md, summary |-> None]
Markdowns == {<<>>, <<"md">>}
\* batchStatus.data?.map(...) || []: any list of at most MaxPages pages
PageLists ==
  UNION {[1..n -> Markdowns] : n \in 0..MaxPages}
PagesOf(mds) == [i \in 1..Len(mds) |-> Page(i, mds[i])]

\* what a completion call returns in choices[0]?.message?.content || ''
Completions == {<<>>, <<"text">>}

\* an object with string keys, in insertion order: obj[key] = value
SetKey(obj, key, value) ==
  IF \E i \in 1..Len(obj) : obj[i].key = key
    THEN [i \in 1..Len(obj) |->
            IF obj[i].key = key THEN [key |-> key, value |-> value] ELSE obj[i]]
    ELSE Append(obj, [key |-> key, value |-> value])

\* String.prototype.substring(start, end): both indices are clamped to
\* [0, length] and swapped when start is greater than end
Clamp(n, len) == IF n < 0 THEN 0 ELSE IF n > len THEN len ELSE n
Substring(s, start, end) ==
  LET a == Clamp(start, Len(s))
      b == Clamp(end, Len(s))
  IN IF a <= b THEN SubSeq(s, a + 1, b) ELSE SubSeq(s, b + 1, a)

\* the character budget of a page in its completion call
SummaryChars == 4000

\* the per-page call, had it sent the page's whole markdown
PageInput_Whole(markdown) == [kind |-> "page", text |-> markdown]

\* the user message of a per-page call:
\* `Please summarize the following webpage content:\n\n${page.markdown.substring(0, 4000)}`
PageInput(markdown) == [kind |-> "page", text |-> Substring(markdown, 0, SummaryChars)]

\* the user message of the final call: ... ${JSON.stringify(summaries, null, 2)}
FinalInput(summaries) == [kind |-> "final", text |-> <<"json", summaries>>]

\* the completion call a summarizing task awaits next, k being the page it
\* has come to, or 0 after the last page
NextInput(pages, k, summaries) ==
  IF k = 0 THEN FinalInput(summaries) ELSE PageInput(pages[k].markdown)

\* the first index above i of a page whose markdown is truthy, 0 when none is left
NextPageWithText(pages, i) ==
  IF \E k \in (i + 1)..Len(pages) : Truthy(pages[k].markdown)
    THEN CHOOSE k \in (i + 1)..Len(pages) :
           /\ Truthy(pages[k].markdown)
           /\ \A m \in (i + 1)..(k - 1) : ~Truthy(pages[m].markdown)
    ELSE 0

\* --------------------------------------------------------- process helpers
\* the catch blocks, had they recorded the message without the status
Failed_StatusKept(j, message, t) ==
  [j EXCEPT !.error = Some(message), !.updatedAt = DateObj(t)]

\* the catch blocks: job.status = 'error'; job.error = message; job.updatedAt = new Date()
Failed(j, message, t) ==
  [j EXCEPT !.status = "error", !.error = Some(message), !.updatedAt = DateObj(t)]

\* process p calls saveScrapingJob(j) and continues at `next` when it returns
CallSave(p, j, next) ==
  /\ job' = [job EXCEPT ![p] = j]
  /\ pc' = [pc EXCEPT ![p] = "save_read"]
  /\ ret' = [ret EXCEPT ![p] = next]

\* process p calls savePersonaContext(c) and continues at `next`
CallSaveCtx(p, c, next) ==
  /\ pctx' = [pctx EXCEPT ![p] = c]
  /\ pc' = [pc EXCEPT ![p] = "ctx_read"]
  /\ ret' = [ret EXCEPT ![p] = next]

\* request slots are taken in order
FreeSlot(p, first) ==
  /\ pc[p] = "idle"
  /\ IF p = first THEN TRUE ELSE pc[p - 1] # "idle"

\* ------------------------------------------ POST /api/scrape/start, crawl
\* await request.json(); 400 without a URL; otherwise await app.mapUrl(...).
\* The single-page version creates and saves the job at once.
ReceiveStart(p, url) ==
  /\ pc[p] = "idle"
  /\ req' = [req EXCEPT ![p] = url]
  /\ IF ~Truthy(url)
       THEN /\ resp' = [resp EXCEPT ![p] = Response(400)]
            /\ pc' = [pc EXCEPT ![p] = "done"]
            /\ UNCHANGED <<job, ret>>
       ELSE IF variant = "crawl"
         THEN /\ pc' = [pc EXCEPT ![p] = "post_map"]
              /\ UNCHANGED <<job, ret, resp>>
         ELSE /\ CallSave(p, NewJob(JobId(now), url, "scraping", now), "post_scrape")
              /\ UNCHANGED resp
  /\ UNCHANGED <<variant, overlap, now, jobsFile, personasFile, pctx, wbuf, sum,
                 calls, extFailure, savedJobs, savedCtxs, durableJobs, durableCtxs, everCompleted>>

\* a start request from any client
StartRequest(p, url) ==
  /\ FreeSlot(p, 1)
  /\ ReceiveStart(p, url)
  /\ UNCHANGED uiVars

\* mapUrl returns, or throws into the handler's catch: HTTP 500, no job
MapReturns(p, ok) ==
  /\ pc[p] = "post_map"
  /\ IF ok
       THEN /\ CallSave(p, NewJob(JobId(now), req[p], "mapping", now), "post_saved")
            /\ UNCHANGED <<resp, extFailure>>
       ELSE /\ resp' = [resp EXCEPT ![p] = Response(500)]
            /\ extFailure' = [extFailure EXCEPT ![p] = Some(MapError)]
            /\ pc' = [pc EXCEPT ![p] = "done"]
            /\ UNCHANGED <<job, ret>>
  /\ UNCHANGED <<uiVars, variant, overlap, now, jobsFile, personasFile, req, pctx, wbuf, sum,
                 calls, savedJobs, savedCtxs, durableJobs, durableCtxs, everCompleted>>

\* the job is saved: setTimeout(callback, 0) and return { jobId }
StartResponds(p) ==
  /\ pc[p] = "post_saved"
  /\ resp' = [resp EXCEPT ![p] = StartedResponse(job[p].id)]
  /\ pc' = [pc EXCEPT ![p] = "bg_timer"]
  /\ UNCHANGED <<uiVars, variant, overlap, now, jobsFile, personasFile, ret, req, job, pctx,
                 wbuf, sum, calls, extFailure, savedJobs, savedCtxs, durableJobs, durableCtxs, everCompleted>>

\* the timer callback: status 'scraping', save
BackgroundStart(p) ==
  /\ pc[p] = "bg_timer"
  /\ CallSave(p, [job[p] EXCEPT !.status = "scraping", !.updatedAt = DateObj(now)],
              "bg_scrape")
  /\ UNCHANGED <<uiVars, variant, overlap, now, jobsFile, personasFile, req, pctx, wbuf, sum,
                 resp, calls, extFailure, savedJobs, savedCtxs, durableJobs, durableCtxs, everCompleted>>

\* batchScrapeUrls returns an id, which is saved, or throws into the
\* callback's catch: status 'error', save
BatchScrapeReturns(p, ok) ==
  /\ pc[p] = "bg_scrape"
  /\ IF ok
       THEN /\ CallSave(p, [job[p] EXCEPT !.batchScrapeId = Some("batch")], "done")
            /\ UNCHANGED extFailure
       ELSE /\ CallSave(p, Failed(job[p], BatchError, now), "done")
            /\ extFailure' = [extFailure EXCEPT ![p] = Some(BatchError)]
  /\ UNCHANGED <<uiVars, variant, overlap, now, jobsFile, personasFile, req, pctx, wbuf, sum,
                 resp, calls, savedJobs, savedCtxs, durableJobs, durableCtxs, everCompleted>>

\* ------------------------------------ POST /api/scrape/start, single page
\* saveContentAsContext: the raw markdown of every page that has some
PageContents(pages) ==
  LET RECURSIVE Collect(_, _)
      Collect(i, acc) ==
        IF i > Len(pages) THEN acc
        ELSE Collect(i + 1, IF Truthy(pages[i].markdown)
                              THEN SetKey(acc, pages[i].url, pages[i].markdown)
                              ELSE acc)
  IN Collect(1, <<>>)

\* Object.entries(pageContents).map(`Page URL: ... --- ...`).join('\n\n')
JoinPages(contents) ==
  LET RECURSIVE Join(_)
      Join(i) ==
        IF i > Len(contents) THEN <<>>
        ELSE (IF i > 1 THEN <<"\n\n">> ELSE <<>>)
             \o <<"Page URL: ">> \o contents[i].key \o <<"\n---\n">>
             \o contents[i].value \o <<"\n\n">> \o Join(i + 1)
  IN Join(1)

\* `Website: ${job.websiteUrl}\nScraped on: ${new Date().toISOString()}\n\n` + pages
ContextDocument(url, pages, t) ==
  <<"Website: ">> \o url \o <<"\nScraped on: ", ToString(t), "\n\n">>
  \o JoinPages(PageContents(pages))

\* scrapeUrl returns.  A throw or success = false goes to the inner catch:
\* status 'error', save.  Otherwise pages = [page], status = 'completed' and
\* saveContentAsContext sets finalContext and awaits savePersonaContext.
ScrapeReturns(p, ok, md) ==
  /\ variant = "single"
  /\ pc[p] = "post_scrape"
  /\ IF ok
       THEN LET pages == <<[url |-> req[p], markdown |-> md, summary |-> None]>>
                doc == ContextDocument(req[p], pages, now)
            IN /\ job' = [job EXCEPT ![p] =
                            [@ EXCEPT !.pages = pages, !.status = "completed",
                                      !.updatedAt = DateObj(now),
                                      !.finalContext = Some(doc)]]
               /\ CallSaveCtx(p, NewContext(req[p], doc, PageContents(pages), now),
                              "post_context_saved")
               /\ UNCHANGED extFailure
       ELSE /\ CallSave(p, Failed(job[p], ScrapeError, now), "post_respond")
            /\ extFailure' = [extFailure EXCEPT ![p] = Some(ScrapeError)]
            /\ UNCHANGED pctx
  /\ UNCHANGED <<uiVars, variant, overlap, now, jobsFile, personasFile, req, wbuf, sum,
                 resp, calls, savedJobs, savedCtxs, durableJobs, durableCtxs, everCompleted>>

\* the context is saved: await saveScrapingJob(job)
ContextSaved(p) ==
  /\ pc[p] = "post_context_saved"
  /\ CallSave(p, job[p], "post_respond")
  /\ UNCHANGED <<uiVars, variant, overlap, now, jobsFile, personasFile, req, pctx, wbuf, sum,
                 resp, calls, extFailure, savedJobs, savedCtxs, durableJobs, durableCtxs, everCompleted>>

\* return { jobId, message: 'Scraping job started' }
SingleResponds(p) ==
  /\ pc[p] = "post_respond"
  /\ resp' = [resp EXCEPT ![p] = StartedResponse(job[p].id)]
  /\ pc' = [pc EXCEPT ![p] = "done"]
  /\ UNCHANGED <<uiVars, variant, overlap, now, jobsFile, personasFile, ret, req, job, pctx,
                 wbuf, sum, calls, extFailure, savedJobs, savedCtxs, durableJobs, durableCtxs, everCompleted>>

\* -------------------------- POST /api/scrape/start, scrape and summarize
\* where summarizeContent suspends next: the completion call for the next page
\* that has markdown, or the final call
AwaitNextContentCompletion(p, pages, i, summaries) ==
  LET k == NextPageWithText(pages, i)
  IN /\ sum' = [sum EXCEPT ![p] = [i |-> k, summaries |-> summaries,
                                   input |-> NextInput(pages, k, summaries)]]
     /\ pc' = [pc EXCEPT ![p] = IF k = 0 THEN "sc_final" ELSE "sc_page"]

\* scrapeUrl returns.  A throw or success = false goes to the catch: status
\* 'error', save.  Otherwise pages = [page], status = 'completed', and
\* summarizeContent(job) runs up to its first completion call.
ScrapeReturnsToSummarize(p, ok, md) ==
  /\ variant = "summarize"
  /\ pc[p] = "post_scrape"
  /\ IF ok
       THEN LET pages == <<[url |-> req[p], markdown |-> md, summary |-> None]>>
            IN /\ job' = [job EXCEPT ![p] =
                            [@ EXCEPT !.pages = pages, !.status = "completed",
                                      !.updatedAt = DateObj(now)]]
               /\ AwaitNextContentCompletion(p, pages, 0, <<>>)
               /\ UNCHANGED <<ret, extFailure>>
       ELSE /\ CallSave(p, Failed(job[p], ScrapeError, now), "post_respond")
            /\ extFailure' = [extFailure EXCEPT ![p] = Some(ScrapeError)]
            /\ UNCHANGED sum
  /\ UNCHANGED <<uiVars, variant, overlap, now, jobsFile, personasFile, req, pctx, wbuf,
                 resp, calls, savedJobs, savedCtxs, durableJobs, durableCtxs, everCompleted>>

\* a page's completion call returns its summary (possibly ''), or throws: the
\* error is rethrown to the handler's catch
ContentSummaryReturns(p, ok, text) ==
  /\ pc[p] = "sc_page"
  /\ IF ok
       THEN LET i == sum[p].i
                pages == [job[p].pages EXCEPT ![i] = [@ EXCEPT !.summary = Some(text)]]
            IN /\ job' = [job EXCEPT ![p] = [@ EXCEPT !.pages = pages]]
               /\ AwaitNextContentCompletion(p, pages, i,
                    SetKey(sum[p].summaries, pages[i].url, text))
               /\ UNCHANGED <<ret, extFailure>>
       ELSE /\ CallSave(p, Failed(job[p], LlmError, now), "post_respond")
            /\ extFailure' = [extFailure EXCEPT ![p] = Some(LlmError)]
            /\ UNCHANGED sum
  /\ UNCHANGED <<uiVars, variant, overlap, now, jobsFile, personasFile, req, pctx, wbuf,
                 resp, calls, savedJobs, savedCtxs, durableJobs, durableCtxs, everCompleted>>

\* the final completion call returns the context (possibly ''): finalContext
\* is set and savePersonaContext awaited, the job is saved after that
\* (ContextSaved); or the call throws
ContentContextReturns(p, ok, text) ==
  /\ pc[p] = "sc_final"
  /\ IF ok
       THEN /\ job' = [job EXCEPT ![p] = [@ EXCEPT !.finalContext = Some(text)]]
            /\ CallSaveCtx(p, NewContext(job[p].websiteUrl, text, sum[p].summaries, now),
                           "post_context_saved")
            /\ UNCHANGED extFailure
       ELSE /\ CallSave(p, Failed(job[p], LlmError, now), "post_respond")
            /\ extFailure' = [extFailure EXCEPT ![p] = Some(LlmError)]
            /\ UNCHANGED pctx
  /\ UNCHANGED <<uiVars, variant, overlap, now, jobsFile, personasFile, req, wbuf, sum,
                 resp, calls, savedJobs, savedCtxs, durableJobs, durableCtxs, everCompleted>>

\* ------------------------------------------ GET /api/scrape/status/[jobId]
\* getScrapingJob; 404; a terminal job is returned as it is; a job that is
\* 'scraping' with a batchScrapeId goes on to await checkBatchScrapeStatus
ReceiveStatus(p, id) ==
  /\ pc[p] = "idle"
  /\ req' = [req EXCEPT ![p] = id]
  /\ LET found == getScrapingJob(jobsFile, id)
     IN IF found = None
          THEN /\ resp' = [resp EXCEPT ![p] = Response(404)]
               /\ pc' = [pc EXCEPT ![p] = "done"]
               /\ UNCHANGED job
          ELSE IF ~Terminal(found[1].status) /\ Truthy(found[1].batchScrapeId)
                  /\ found[1].status = "scraping"
            THEN /\ job' = [job EXCEPT ![p] = found[1]]
                 /\ pc' = [pc EXCEPT ![p] = "get_check"]
                 /\ UNCHANGED resp
            ELSE /\ resp' = [resp EXCEPT ![p] = JobResponse(found[1])]
                 /\ pc' = [pc EXCEPT ![p] = "done"]
                 /\ UNCHANGED job
  /\ UNCHANGED <<variant, overlap, now, jobsFile, personasFile, ret, pctx, wbuf, sum,
                 calls, extFailure, savedJobs, savedCtxs, durableJobs, durableCtxs, everCompleted>>

\* a status request from any client
StatusRequest(p, id) ==
  /\ FreeSlot(p, MaxStarts + 1)
  /\ ReceiveStatus(p, id)
  /\ UNCHANGED uiVars

\* checkBatchScrapeStatus throws (the handler's catch answers 500), reports a
\* batch that is still running or one that has failed (only 'completed' is
\* tested: the job is returned unchanged), or reports 'completed' with its
\* pages: status 'summarizing', save
BatchStatusReturns(p, outcome, mds) ==
  /\ pc[p] = "get_check"
  /\ CASE outcome = "throws" ->
            /\ resp' = [resp EXCEPT ![p] = Response(500)]
            /\ extFailure' = [extFailure EXCEPT ![p] = Some(StatusError)]
            /\ pc' = [pc EXCEPT ![p] = "done"]
            /\ UNCHANGED <<job, ret>>
       [] outcome = "pending" ->
            /\ resp' = [resp EXCEPT ![p] = JobResponse(job[p])]
            /\ pc' = [pc EXCEPT ![p] = "done"]
            /\ UNCHANGED <<job, ret, extFailure>>
       [] outcome = "failed" ->
            /\ resp' = [resp EXCEPT ![p] = JobResponse(job[p])]
            /\ extFailure' = [extFailure EXCEPT ![p] = Some(BatchFailed)]
            /\ pc' = [pc EXCEPT ![p] = "done"]
            /\ UNCHANGED <<job, ret>>
       [] outcome = "completed" ->
            /\ CallSave(p, [job[p] EXCEPT !.pages = PagesOf(mds),
                                          !.status = "summarizing",
                                          !.updatedAt = DateObj(now)], "get_saved")
            /\ UNCHANGED <<resp, extFailure>>
  /\ UNCHANGED <<uiVars, variant, overlap, now, jobsFile, personasFile, req, pctx, wbuf, sum,
                 calls, savedJobs, savedCtxs, durableJobs, durableCtxs, everCompleted>>

\* setTimeout(() => summarizePages(job), 0); return the job
StatusResponds(p) ==
  /\ pc[p] = "get_saved"
  /\ resp' = [resp EXCEPT ![p] = JobResponse(job[p])]
  /\ pc' = [pc EXCEPT ![p] = "sum_timer"]
  /\ UNCHANGED <<uiVars, variant, overlap, now, jobsFile, personasFile, ret, req, job, pctx,
                 wbuf, sum, calls, extFailure, savedJobs, savedCtxs, durableJobs, durableCtxs, everCompleted>>

\* ------------------------------------------------------------ summarizePages
\* where the task suspends next: the completion call for the next page that
\* has markdown, or the final call when no such page is left
AwaitNextCompletion(p, i, summaries) ==
  LET k == NextPageWithText(job[p].pages, i)
  IN /\ sum' = [sum EXCEPT ![p] = [i |-> k, summaries |-> summaries,
                                   input |-> NextInput(job[p].pages, k, summaries)]]
     /\ pc' = [pc EXCEPT ![p] = IF k = 0 THEN "sum_final" ELSE "sum_page"]

\* the timer fires: summarizePages runs up to its first await
SummarizeStart(p) ==
  /\ pc[p] = "sum_timer"
  /\ AwaitNextCompletion(p, 0, <<>>)
  /\ UNCHANGED <<uiVars, variant, overlap, now, jobsFile, personasFile, ret, req, job, pctx,
                 wbuf, resp, calls, extFailure, savedJobs, savedCtxs, durableJobs, durableCtxs, everCompleted>>

\* a page's completion call returns its summary (possibly ''), or throws into
\* the catch: status 'error', save
PageSummaryReturns(p, ok, text) ==
  /\ pc[p] = "sum_page"
  /\ IF ok
       THEN LET i == sum[p].i
                pages == [job[p].pages EXCEPT ![i] = [@ EXCEPT !.summary = Some(text)]]
                k == NextPageWithText(pages, i)
            IN /\ job' = [job EXCEPT ![p] = [@ EXCEPT !.pages = pages]]
               /\ sum' = [sum EXCEPT ![p] =
                            [i |-> k,
                             summaries |-> SetKey(sum[p].summaries, pages[i].url, text),
                             input |-> NextInput(pages, k,
                                         SetKey(sum[p].summaries, pages[i].url, text))]]
               /\ pc' = [pc EXCEPT ![p] = IF k = 0 THEN "sum_final" ELSE "sum_page"]
               /\ UNCHANGED <<ret, extFailure>>
       ELSE /\ CallSave(p, Failed(job[p], LlmError, now), "done")
            /\ extFailure' = [extFailure EXCEPT ![p] = Some(LlmError)]
            /\ UNCHANGED sum
  /\ UNCHANGED <<uiVars, variant, overlap, now, jobsFile, personasFile, req, pctx, wbuf,
                 resp, calls, savedJobs, savedCtxs, durableJobs, durableCtxs, everCompleted>>

\* the final completion call returns the context (possibly ''): finalContext,
\* status 'completed', save; or it throws into the catch
FinalContextReturns(p, ok, text) ==
  /\ pc[p] = "sum_final"
  /\ IF ok
       THEN /\ CallSave(p, [job[p] EXCEPT !.finalContext = Some(text),
                                          !.status = "completed",
                                          !.updatedAt = DateObj(now)], "sum_persona")
            /\ UNCHANGED extFailure
       ELSE /\ CallSave(p, Failed(job[p], LlmError, now), "done")
            /\ extFailure' = [extFailure EXCEPT ![p] = Some(LlmError)]
  /\ UNCHANGED <<uiVars, variant, overlap, now, jobsFile, personasFile, req, pctx, wbuf, sum,
                 resp, calls, savedJobs, savedCtxs, durableJobs, durableCtxs, everCompleted>>

\* the completed job is saved: await savePersonaContext({...})
SummarizeSavesContext(p) ==
  /\ pc[p] = "sum_persona"
  /\ CallSaveCtx(p, NewContext(job[p].websiteUrl, job[p].finalContext[1],
                               sum[p].summaries, now), "done")
  /\ UNCHANGED <<uiVars, variant, overlap, now, jobsFile, personasFile, req, job, wbuf, sum,
                 resp, calls, extFailure, savedJobs, savedCtxs, durableJobs, durableCtxs, everCompleted>>

\* ------------------------------------------------------------- the server
Init ==
  /\ InitCommon
  /\ variant \in {"crawl", "single", "summarize"}
  /\ overlap = TRUE
  /\ batch = "off"

Next ==
  \/ Tick
  \/ \E p \in Procs : StoreStep(p)
  \/ \E p \in StartProcs, url \in Inputs : StartRequest(p, url)
  \/ \E p \in StartProcs, ok \in BOOLEAN : MapReturns(p, ok)
  \/ \E p \in StartProcs : StartResponds(p)
  \/ \E p \in StartProcs : BackgroundStart(p)
  \/ \E p \in StartProcs, ok \in BOOLEAN : BatchScrapeReturns(p, ok)
  \/ \E p \in StartProcs, ok \in BOOLEAN, md \in Markdowns : ScrapeReturns(p, ok, md)
  \/ \E p \in StartProcs, ok \in BOOLEAN, md \in Markdowns : ScrapeReturnsToSummarize(p, ok, md)
  \/ \E p \in StartProcs, ok \in BOOLEAN, text \in Completions : ContentSummaryReturns(p, ok, text)
  \/ \E p \in StartProcs, ok \in BOOLEAN, text \in Completions : ContentContextReturns(p, ok, text)
  \/ \E p \in StartProcs : ContextSaved(p)
  \/ \E p \in StartProcs : SingleResponds(p)
  \/ \E p \in GetProcs, id \in JobIds : StatusRequest(p, id)
  \/ \E p \in GetProcs, outcome \in {"throws", "pending", "failed", "completed"}, mds \in PageLists :
       BatchStatusReturns(p, outcome, mds)
  \/ \E p \in GetProcs : StatusResponds(p)
  \/ \E p \in GetProcs : SummarizeStart(p)
  \/ \E p \in GetProcs, ok \in BOOLEAN, text \in Completions : PageSummaryReturns(p, ok, text)
  \/ \E p \in GetProcs, ok \in BOOLEAN, text \in Completions : FinalContextReturns(p, ok, text)
  \/ \E p \in GetProcs : SummarizeSavesContext(p)

Spec == Init /\ [][Next]_vars

\* ------------------------------------------- the server with long pages
\* a text of n characters (each one here its own position), and pages as
\* long as the character budget, or a little shorter or longer
Text(n) == [i \in 1..n |-> i]
LongMarkdowns ==
  {Text(n) : n \in {0, 1, SummaryChars - 1, SummaryChars, SummaryChars + 1, 2 * SummaryChars}}
LongPageLists ==
  UNION {[1..n -> LongMarkdowns] : n \in 0..MaxPages}

\* One start request and one status request, the content source returning
\* pages around the character budget; the single-page version makes no
\* completion call and is left out.
InitSummarize ==
  /\ InitCommon
  /\ variant \in {"crawl", "summarize"}
  /\ overlap = TRUE
  /\ batch = "off"

NextSummarize ==
  \/ \E p \in StartProcs \cup {MaxStarts + 1} : StoreStep(p)
  \/ \E p \in StartProcs : StartRequest(p, UrlA)
  \/ \E p \in StartProcs, ok \in BOOLEAN : MapReturns(p, ok)
  \/ \E p \in StartProcs : StartResponds(p)
  \/ \E p \in StartProcs : BackgroundStart(p)
  \/ \E p \in StartProcs, ok \in BOOLEAN : BatchScrapeReturns(p, ok)
  \/ \E p \in StartProcs, ok \in BOOLEAN, md \in LongMarkdowns : ScrapeReturnsToSummarize(p, ok, md)
  \/ \E p \in StartProcs, ok \in BOOLEAN, text \in Completions : ContentSummaryReturns(p, ok, text)
  \/ \E p \in StartProcs, ok \in BOOLEAN, text \in Completions : ContentContextReturns(p, ok, text)
  \/ \E p \in StartProcs : ContextSaved(p)
  \/ \E p \in StartProcs : SingleResponds(p)
  \/ \E id \in JobIds : StatusRequest(MaxStarts + 1, id)
  \/ \E mds \in LongPageLists : BatchStatusReturns(MaxStarts + 1, "completed", mds)
  \/ StatusResponds(MaxStarts + 1)
  \/ SummarizeStart(MaxStarts + 1)
  \/ \E ok \in BOOLEAN, text \in Completions : PageSummaryReturns(MaxStarts + 1, ok, text)
  \/ \E ok \in BOOLEAN, text \in Completions : FinalContextReturns(MaxStarts + 1, ok, text)
  \/ SummarizeSavesContext(MaxStarts + 1)

SpecSummarize == InitSummarize /\ [][NextSummarize]_vars

\* ------------------------------------------- the server with many pages
\* The max-page count the command-line tool asks for by default
\* (crawlWebsite's maxPages = 10); the crawl route asks mapUrl for up to 100
\* links and has no count of its own.
DefaultMaxPages == 10

\* what checkBatchScrapeStatus can report for the links of one site: no page,
\* one page, as many as the max-page count, or one more
CrawlPageLists ==
  {[i \in 1..n |-> <<"md">>] : n \in {0, 1, DefaultMaxPages, DefaultMaxPages + 1}}

InitCrawl ==
  /\ InitCommon
  /\ variant = "crawl"
  /\ overlap = TRUE
  /\ batch = "off"

\* one start request and one status request for its job
NextCrawl ==
  \/ \E p \in StartProcs \cup {MaxStarts + 1} : StoreStep(p)
  \/ \E p \in StartProcs : StartRequest(p, UrlA)
  \/ \E p \in StartProcs, ok \in BOOLEAN : MapReturns(p, ok)
  \/ \E p \in StartProcs : StartResponds(p)
  \/ \E p \in StartProcs : BackgroundStart(p)
  \/ \E p \in StartProcs, ok \in BOOLEAN : BatchScrapeReturns(p, ok)
  \/ \E id \in JobIds : StatusRequest(MaxStarts + 1, id)
  \/ \E outcome \in {"throws", "pending", "failed", "completed"}, mds \in CrawlPageLists :
       BatchStatusReturns(MaxStarts + 1, outcome, mds)
  \/ StatusResponds(MaxStarts + 1)
  \/ SummarizeStart(MaxStarts + 1)
  \/ \E ok \in BOOLEAN : PageSummaryReturns(MaxStarts + 1, ok, <<"text">>)
  \/ \E ok \in BOOLEAN : FinalContextReturns(MaxStarts + 1, ok, <<"text">>)
  \/ SummarizeSavesContext(MaxStarts + 1)

SpecCrawl == InitCrawl /\ [][NextCrawl]_vars

\* ------------------------------------- the server when nobody asks for status
\* what the server does for a start request by itself
StartProgress(p) ==
  \/ StoreStep(p)
  \/ \E ok \in BOOLEAN : MapReturns(p, ok)
  \/ StartResponds(p)
  \/ BackgroundStart(p)
  \/ \E ok \in BOOLEAN : BatchScrapeReturns(p, ok)
  \/ \E ok \in BOOLEAN, md \in Markdowns : ScrapeReturns(p, ok, md)
  \/ \E ok \in BOOLEAN, md \in Markdowns : ScrapeReturnsToSummarize(p, ok, md)
  \/ \E ok \in BOOLEAN, text \in Completions : ContentSummaryReturns(p, ok, text)
  \/ \E ok \in BOOLEAN, text \in Completions : ContentContextReturns(p, ok, text)
  \/ ContextSaved(p)
  \/ SingleResponds(p)

NextAbandoned ==
  \/ Tick
  \/ \E p \in StartProcs, url \in Inputs : StartRequest(p, url)
  \/ \E p \in StartProcs : StartProgress(p)

\* the caller starts jobs and never asks for their status; the server's tasks
\* are scheduled fairly and the external services answer every call
SpecAbandoned ==
  /\ Init
  /\ [][NextAbandoned]_vars
  /\ \A p \in StartProcs : WF_vars(StartProgress(p))

\* ------------------------------------------------- the page: a batch of URLs
serverVars == <<variant, overlap, now, jobsFile, personasFile, pc, ret, req, job, pctx,
                wbuf, sum, resp, calls, extFailure, savedJobs, savedCtxs, durableJobs,
                durableCtxs, everCompleted>>

BatchUrls == 1..Len(urlList)
Contains(list, x) == \E i \in 1..Len(list) : list[i] = x

\* addUrl without its test urlList.includes(currentUrl)
addUrl_NoIncludesTest(currentUrl) ==
  /\ batch = "editing"
  /\ Len(urlList) < MaxUrls
  /\ IF ~Truthy(currentUrl)
       THEN uiError' = Some("Please enter a website URL") /\ UNCHANGED urlList
       ELSE IF ~ParsesAsUrl(currentUrl)
         THEN uiError' = Some("Please enter a valid URL") /\ UNCHANGED urlList
         ELSE urlList' = Append(urlList, currentUrl) /\ uiError' = None
  /\ UNCHANGED <<serverVars, isScraping, scrapingJobs, batch, fetch, pageVars>>

\* addUrl: an empty field, a text that new URL() rejects and a URL already in
\* the list each set an error; otherwise the URL is appended
addUrl(currentUrl) ==
  /\ batch = "editing"
  /\ Len(urlList) < MaxUrls
  /\ IF ~Truthy(currentUrl)
       THEN uiError' = Some("Please enter a website URL") /\ UNCHANGED urlList
       ELSE IF ~ParsesAsUrl(currentUrl)
         THEN uiError' = Some("Please enter a valid URL") /\ UNCHANGED urlList
         ELSE IF Contains(urlList, currentUrl)
           THEN uiError' = Some("This URL has already been added") /\ UNCHANGED urlList
           ELSE urlList' = Append(urlList, currentUrl) /\ uiError' = None
  /\ UNCHANGED <<serverVars, isScraping, scrapingJobs, batch, fetch, pageVars>>

\* removeUrl(url), from the button beside a URL of the list:
\* urlList.filter(u => u !== url)
removeUrl(url) ==
  /\ batch = "editing"
  /\ Contains(urlList, url)
  /\ urlList' = SelectSeq(urlList, LAMBDA u : u # url)
  /\ UNCHANGED <<serverVars, isScraping, uiError, scrapingJobs, batch, fetch, pageVars>>

\* the user types UrlA before UrlB
TypeUrl(u) ==
  /\ u = UrlB => Contains(urlList, UrlA)
  /\ addUrl(u)

\* startScrapingAll: nothing to do on an empty list; otherwise one fetch of
\* POST /api/scrape/start per URL is issued inside Promise.all
startScrapingAll ==
  /\ batch = "editing"
  /\ IF Len(urlList) = 0
       THEN /\ uiError' = Some("Please add at least one URL")
            /\ UNCHANGED <<isScraping, batch, fetch>>
       ELSE /\ isScraping' = TRUE
            /\ uiError' = None
            /\ batch' = "running"
            /\ fetch' = [i \in 1..MaxUrls |-> IF i \in BatchUrls THEN "start_sent" ELSE "none"]
  /\ UNCHANGED <<serverVars, urlList, scrapingJobs, pageVars>>

\* the start request of URL i reaches the server
StartArrives(i) ==
  /\ i \in BatchUrls
  /\ fetch[i] = "start_sent"
  /\ ReceiveStart(BatchStart(i), urlList[i])
  /\ fetch' = [fetch EXCEPT ![i] = "start_wait"]
  /\ UNCHANGED <<urlList, isScraping, uiError, scrapingJobs, batch, pageVars>>

\* the catch of startScrapingAll, entered by the first rejected promise
BatchRejects ==
  /\ uiError' = Some("Failed to start scraping")
  /\ isScraping' = FALSE
  /\ batch' = "rejected"

\* the start response of URL i reaches the page: response.ok goes on to fetch
\* the job's status, anything else throws
StartFetchResolves(i) ==
  /\ i \in BatchUrls
  /\ fetch[i] = "start_wait"
  /\ resp[BatchStart(i)] # NoResponse
  /\ IF resp[BatchStart(i)].code = 200
       THEN /\ fetch' = [fetch EXCEPT ![i] = "status_sent"]
            /\ UNCHANGED <<uiError, isScraping, batch>>
       ELSE /\ fetch' = [fetch EXCEPT ![i] = "rejected"]
            /\ IF batch = "running"
                 THEN BatchRejects
                 ELSE UNCHANGED <<uiError, isScraping, batch>>
  /\ UNCHANGED <<serverVars, urlList, scrapingJobs, pageVars>>

\* the status request of URL i reaches the server
StatusArrives(i) ==
  /\ i \in BatchUrls
  /\ fetch[i] = "status_sent"
  /\ ReceiveStatus(BatchGet(i), resp[BatchStart(i)].jobId[1])
  /\ fetch' = [fetch EXCEPT ![i] = "status_wait"]
  /\ UNCHANGED <<urlList, isScraping, uiError, scrapingJobs, batch, pageVars>>

\* what Promise.all resolves to: the body of each status response
BatchResult == [i \in BatchUrls |-> resp[BatchGet(i)].job]

\* ------------------------------------------------ the page: session assembly
\* The polling page (src/app/page.tsx) belongs to the crawl routes, the page
\* without polling (part_001: "scraping is now synchronous") to the others.
pageVersion == IF variant = "crawl" THEN "poll" ELSE "sync"

\* an element of scrapingJobs is the body of a status response: a job, or an
\* error object, which has no status and no websiteUrl
StatusOf(entry) == IF entry = None THEN "" ELSE entry[1].status
UrlOf(entry) == IF entry = None THEN <<>> ELSE entry[1].websiteUrl
Every(jobs, st) == \A i \in 1..Len(jobs) : StatusOf(jobs[i]) \in st
SomeJob(jobs, st) == \E i \in 1..Len(jobs) : StatusOf(jobs[i]) \in st

NonTerminal(entry) == StatusOf(entry) \notin {"completed", "error"}

\* the effect, had it tested job.status !== 'completed' alone
PollingEffect_UntilCompleted(jobs) ==
  pageVersion = "poll" /\ \E i \in 1..Len(jobs) : StatusOf(jobs[i]) # "completed"

\* the effect on [scrapingJobs, checkAllScrapingStatus], run after a render
\* with a new scrapingJobs: the old interval is cleared, and page.tsx sets a
\* new one when some job is neither completed nor error; part_001 has no
\* such effect
PollingEffect(jobs) ==
  pageVersion = "poll" /\ \E i \in 1..Len(jobs) : NonTerminal(jobs[i])

\* jobs.filter(job => job.status === 'completed')
successfulJobs(jobs) == SelectSeq(jobs, LAMBDA e : StatusOf(e) = "completed")

\* jobs.map(job => context ? `\n\nWebsite: ${job.websiteUrl}\n${context.context}` : '')
ContextPart(entry, contexts) ==
  LET k == findContextIndex(contexts, UrlOf(entry))
  IN IF k >= 1
       THEN <<"\n\nWebsite: ">> \o UrlOf(entry) \o <<"\n">> \o contexts[k].context
       ELSE <<>>

\* .filter(Boolean).join('\n---')
combinedContexts(jobs, contexts) ==
  LET parts == SelectSeq([i \in 1..Len(jobs) |-> ContextPart(jobs[i], contexts)],
                         LAMBDA t : Truthy(t))
      RECURSIVE Join(_)
      Join(i) == IF i > Len(parts) THEN <<>>
                 ELSE (IF i > 1 THEN <<"\n---">> ELSE <<>>) \o parts[i] \o Join(i + 1)
  IN Join(1)

\* createPersonaFromAllScrapedContent(jobs) runs up to its first await, the
\* fetch of /api/persona-context
createPersonaFromAllScrapedContent(jobs) ==
  assembly' = [pc |-> "contexts", jobs |-> jobs, combined |-> <<>>]

\* part_001: checkAllScrapingComplete(jobs)
checkAllScrapingComplete(jobs) ==
  IF Every(jobs, {"completed", "error"}) /\ SomeJob(jobs, {"completed"})
    THEN createPersonaFromAllScrapedContent(jobs)
    ELSE UNCHANGED assembly

\* setShowConversation(true); setIsScraping(false)
ShowConversation ==
  /\ showConversation' = TRUE
  /\ isScraping' = FALSE

\* the fetch of /api/persona-context resolves with the context table, or
\* fails.  part_001 shows the conversation on a failure and when there is no
\* context to combine; page.tsx sets an error on a failure and does nothing
\* without contexts.  With contexts, tavusAPI.createPersona is awaited.
AssembleFromContexts(ok) ==
  /\ assembly.pc = "contexts"
  /\ LET contexts == getAllPersonaContexts(personasFile)
         combined == IF pageVersion = "sync"
                       THEN combinedContexts(successfulJobs(assembly.jobs), contexts)
                       ELSE combinedContexts(assembly.jobs, contexts)
     IN IF ~ok
          THEN /\ assembly' = [assembly EXCEPT !.pc = "done"]
               /\ UNCHANGED personaCalls
               /\ IF pageVersion = "sync"
                    THEN ShowConversation /\ UNCHANGED uiError
                    ELSE /\ uiError' = Some("Failed to create conversation persona")
                         /\ isScraping' = FALSE
                         /\ UNCHANGED showConversation
          ELSE IF Truthy(combined)
            THEN /\ assembly' = [assembly EXCEPT !.pc = "persona", !.combined = combined]
                 /\ personaCalls' = personaCalls + 1
                 /\ UNCHANGED <<showConversation, isScraping, uiError>>
            ELSE /\ assembly' = [assembly EXCEPT !.pc = "done"]
                 /\ UNCHANGED personaCalls
                 /\ IF pageVersion = "sync"
                      THEN ShowConversation /\ UNCHANGED uiError
                      ELSE UNCHANGED <<showConversation, isScraping, uiError>>
  /\ UNCHANGED <<urlList, scrapingJobs, batch, fetch, personaId, polls, tavus, cli, component, checks, interval>>

\* GET /api/persona-context, had it handed the contexts out and emptied the table
ContextsFetched_Consuming(ok) ==
  /\ AssembleFromContexts(ok)
  /\ personasFile' = OkFile(<<>>)
  /\ durableCtxs' = <<>>
  /\ UNCHANGED <<variant, overlap, now, jobsFile, pc, ret, req, job, pctx, wbuf, sum, resp,
                 calls, extFailure, savedJobs, savedCtxs, durableJobs, everCompleted>>

\* GET /api/persona-context answers the fetch of createPersonaFromAllScrapedContent:
\* getAllPersonaContexts reads the table, nothing is written
ContextsFetched(ok) ==
  /\ AssembleFromContexts(ok)
  /\ UNCHANGED serverVars

\* tavusAPI.createPersona returns a persona with its id, returns {} (the
\* request was answered 400), or throws
PersonaReturns(outcome) ==
  /\ assembly.pc = "persona"
  /\ assembly' = [assembly EXCEPT !.pc = "done"]
  /\ CASE outcome = "created" ->
            /\ personaId' = Some("persona")
            /\ ShowConversation
            /\ UNCHANGED uiError
       [] outcome = "empty" ->
            /\ UNCHANGED <<personaId, uiError>>
            /\ IF pageVersion = "sync"
                 THEN ShowConversation
                 ELSE UNCHANGED <<showConversation, isScraping>>
       [] outcome = "throws" ->
            /\ UNCHANGED personaId
            /\ IF pageVersion = "sync"
                 THEN ShowConversation /\ UNCHANGED uiError
                 ELSE /\ uiError' = Some("Failed to create conversation persona")
                      /\ isScraping' = FALSE
                      /\ UNCHANGED showConversation
  /\ UNCHANGED <<serverVars, urlList, scrapingJobs, batch, fetch, polls, tavus, cli, component, checks, interval, personaCalls>>

\* the status response of URL i reaches the page: its body is the promise's
\* value, whatever the response's code; when it is the last promise of a batch
\* in which none was rejected, setScrapingJobs(jobs), and in part_001
\* checkAllScrapingComplete(jobs)
StatusFetchResolves(i) ==
  /\ i \in BatchUrls
  /\ fetch[i] = "status_wait"
  /\ resp[BatchGet(i)] # NoResponse
  /\ fetch' = [fetch EXCEPT ![i] = "fulfilled"]
  /\ IF batch = "running" /\ \A k \in BatchUrls : fetch'[k] = "fulfilled"
       THEN /\ scrapingJobs' = BatchResult
            /\ interval' = PollingEffect(BatchResult)
            /\ batch' = "settled"
            /\ IF pageVersion = "sync"
                 THEN checkAllScrapingComplete(BatchResult)
                 ELSE UNCHANGED assembly
       ELSE UNCHANGED <<scrapingJobs, interval, batch, assembly>>
  /\ UNCHANGED <<serverVars, urlList, isScraping, uiError, showConversation, personaId, polls, tavus, cli, component, checks, personaCalls>>

BatchStarts == {BatchStart(i) : i \in 1..MaxUrls}
BatchGets == {BatchGet(i) : i \in 1..MaxUrls}

\* The page from an empty list to the moment Promise.all settles and, without
\* polling, through session assembly.  The user
\* types UrlA before UrlB, and the batch scrape of a job is still running when
\* the page asks for the job's status for the first time.
InitBatch ==
  /\ InitCommon
  /\ variant \in {"crawl", "single"}
  /\ overlap = TRUE
  /\ batch = "editing"

NextBatch ==
  \/ Tick
  \/ \E u \in Inputs : TypeUrl(u)
  \/ startScrapingAll
  \/ \E i \in 1..MaxUrls : StartArrives(i)
  \/ \E i \in 1..MaxUrls : StartFetchResolves(i)
  \/ \E i \in 1..MaxUrls : StatusArrives(i)
  \/ \E i \in 1..MaxUrls : StatusFetchResolves(i)
  \/ \E ok \in BOOLEAN : ContextsFetched(ok)
  \/ \E outcome \in {"created", "empty", "throws"} : PersonaReturns(outcome)
  \/ \E p \in Procs : StoreStep(p)
  \/ \E p \in BatchStarts, ok \in BOOLEAN : MapReturns(p, ok)
  \/ \E p \in BatchStarts : StartResponds(p)
  \/ \E p \in BatchStarts : BackgroundStart(p)
  \/ \E p \in BatchStarts, ok \in BOOLEAN : BatchScrapeReturns(p, ok)
  \/ \E p \in BatchStarts, ok \in BOOLEAN, md \in Markdowns : ScrapeReturns(p, ok, md)
  \/ \E p \in BatchStarts : ContextSaved(p)
  \/ \E p \in BatchStarts : SingleResponds(p)
  \/ \E p \in BatchGets, outcome \in {"throws", "pending", "failed"} : BatchStatusReturns(p, outcome, <<>>)

SpecBatch == InitBatch /\ [][NextBatch]_vars

\* --------------------------------------------------- the page: polling
\* the interval fires and checkAllScrapingStatus runs up to its fetches with
\* the scrapingJobs of the render that set the interval: a terminal job is
\* kept, every other job's status is requested.  setInterval does not wait for
\* the check before: a tick can fire while earlier checks await their responses.
PollTick ==
  /\ component = "Home"
  /\ pageVersion = "poll"
  /\ interval
  /\ polls < MaxPolls
  /\ polls' = polls + 1
  /\ checks' = [checks EXCEPT ![polls + 1] =
                  [jobs |-> scrapingJobs,
                   fetch |-> [i \in 1..MaxUrls |->
                                IF i > Len(scrapingJobs) THEN "none"
                                ELSE IF NonTerminal(scrapingJobs[i]) THEN "poll_sent"
                                ELSE "poll_kept"]]]
  /\ UNCHANGED <<serverVars, urlList, isScraping, uiError, scrapingJobs, batch, fetch,
                 showConversation, personaId, assembly, tavus, cli, component, interval, personaCalls>>

\* the status request of job i of check r reaches the server
PollArrives(r, i) ==
  /\ checks[r].fetch[i] = "poll_sent"
  /\ checks[r].jobs[i] # None
  /\ ReceiveStatus(PollGet(r, i), checks[r].jobs[i][1].id)
  /\ checks' = [checks EXCEPT ![r].fetch[i] = "poll_wait"]
  /\ UNCHANGED <<urlList, isScraping, uiError, scrapingJobs, batch, fetch, showConversation,
                 personaId, assembly, polls, tavus, cli, component, interval, personaCalls>>

\* what the Promise.all of check r resolves to: the kept job, the body of an
\* ok response, or the old job when the response is not ok
updatedJobs(r, done) ==
  [i \in 1..Len(checks[r].jobs) |->
     IF done[i] = "poll_kept" THEN checks[r].jobs[i]
     ELSE IF resp[PollGet(r, i)].code = 200 THEN resp[PollGet(r, i)].job
     ELSE checks[r].jobs[i]]

\* the status response of job i of check r reaches the page; with the last
\* one, setScrapingJobs(updatedJobs), the polling effect runs again, and
\* createPersonaFromAllScrapedContent is called when every job is completed
\* (one call of it is followed at a time)
PollFetchResolves(r, i) ==
  /\ component = "Home"
  /\ checks[r].fetch[i] = "poll_wait"
  /\ resp[PollGet(r, i)] # NoResponse
  /\ LET done == [checks[r].fetch EXCEPT ![i] = "poll_done"]
     IN /\ checks' = [checks EXCEPT ![r].fetch = done]
        /\ IF \A k \in 1..Len(checks[r].jobs) : done[k] \in {"poll_kept", "poll_done"}
             THEN /\ scrapingJobs' = updatedJobs(r, done)
                  /\ interval' = PollingEffect(updatedJobs(r, done))
                  /\ IF Every(updatedJobs(r, done), {"completed"})
                       THEN /\ assembly.pc \in {"off", "done"}
                            /\ createPersonaFromAllScrapedContent(updatedJobs(r, done))
                       ELSE UNCHANGED assembly
             ELSE UNCHANGED <<scrapingJobs, interval, assembly>>
  /\ UNCHANGED <<serverVars, urlList, isScraping, uiError, batch, fetch, showConversation,
                 personaId, polls, tavus, cli, component, personaCalls>>

\* the conversation view is rendered instead of the form and the progress list
ConversationView ==
  IF pageVersion = "poll" THEN showConversation /\ personaId # None ELSE showConversation

\* resetAndStartNew, from the conversation view's button or the end of the
\* conversation, or from 'Try again', which the progress list shows when some
\* job has status error; the effect clears the interval
resetAndStartNew ==
  /\ component = "Home"
  /\ \/ ConversationView
     \/ isScraping /\ SomeJob(scrapingJobs, {"error"})
  /\ urlList' = <<>>
  /\ scrapingJobs' = <<>>
  /\ showConversation' = FALSE
  /\ personaId' = None
  /\ uiError' = None
  /\ isScraping' = FALSE
  /\ interval' = PollingEffect(<<>>)
  /\ batch' = "editing"
  /\ UNCHANGED <<serverVars, fetch, assembly, polls, tavus, cli, component, checks, personaCalls>>

\* A job of the batch as the store or the page holds it between two status
\* checks.
PolledJob(i, url, st) ==
  LET scraping == [NewJob(JobId(i), url, "scraping", i) EXCEPT !.batchScrapeId = Some("batch")]
      page == [url |-> PageUrl(1), markdown |-> <<"md">>, summary |-> None]
  IN CASE st = "scraping" -> scraping
       [] st = "error" -> Failed(NewJob(JobId(i), url, "scraping", i), BatchError, i)
       [] st = "summarizing" -> [scraping EXCEPT !.status = "summarizing", !.pages = <<page>>]
       [] st = "completed" ->
            [scraping EXCEPT !.status = "completed",
                             !.pages = <<[page EXCEPT !.summary = Some(<<"text">>)]>>,
                             !.finalContext = Some(<<"text">>)]

\* the contexts saved for the completed jobs among the two
PolledContexts(st1, st2) ==
  (IF st1 = "completed"
     THEN <<NewContext(UrlA, <<"text">>, SetKey(<<>>, PageUrl(1), <<"text">>), 1)>>
     ELSE <<>>)
  \o (IF st2 = "completed"
        THEN <<NewContext(UrlB, <<"text">>, SetKey(<<>>, PageUrl(1), <<"text">>), 2)>>
        ELSE <<>>)

\* A batch of two URLs between two status checks: the store holds the jobs
\* with status st1 and st2, the page holds the second job with status held2,
\* no request is in flight and the interval is set.  PersonaManager holds the
\* second job alone, as its scrapingJob.
BetweenChecks(st1, st2, held2, comp) ==
  LET jobs == JsonJobs(<<PolledJob(1, UrlA, st1), PolledJob(2, UrlB, st2)>>)
      held == JsonJobs(<<PolledJob(1, UrlA, st1), PolledJob(2, UrlB, held2)>>)
      contexts == JsonContexts(PolledContexts(st1, st2))
  IN /\ variant = "crawl"
     /\ overlap = TRUE
     /\ now = MaxClock
     /\ jobsFile = OkFile(jobs)
     /\ personasFile = IF contexts = <<>> THEN AbsentFile ELSE OkFile(contexts)
     /\ pc = [p \in Procs |-> "idle"]
     /\ ret = [p \in Procs |-> "idle"]
     /\ req = [p \in Procs |-> <<>>]
     /\ job = [p \in Procs |-> NoJob]
     /\ pctx = [p \in Procs |-> NoContext]
     /\ wbuf = [p \in Procs |-> <<>>]
     /\ sum = [p \in Procs |-> NoSum]
     /\ resp = [p \in Procs |-> NoResponse]
     /\ calls = 0
     /\ extFailure = [p \in Procs |-> None]
     /\ savedJobs = [id \in JobIds |-> {}]
     /\ savedCtxs = [u \in Urls |-> {}]
     /\ durableJobs = jobs
     /\ durableCtxs = contexts
     /\ everCompleted = (IF st1 = "completed" THEN {UrlA} ELSE {})
                          \cup (IF st2 = "completed" THEN {UrlB} ELSE {})
     /\ urlList = IF comp = "Home" THEN <<UrlA, UrlB>> ELSE <<>>
     /\ isScraping = (comp = "Home")
     /\ uiError = None
     /\ scrapingJobs = IF comp = "Home" THEN [i \in 1..2 |-> Some(held[i])]
                                         ELSE <<Some(held[2])>>
     /\ batch = IF comp = "Home" THEN "settled" ELSE "off"
     /\ fetch = [i \in 1..MaxUrls |-> IF i <= 2 /\ comp = "Home" THEN "fulfilled" ELSE "none"]
     /\ showConversation = FALSE
     /\ personaId = None
     /\ assembly = NoAssembly
     /\ polls = 0
     /\ tavus = NoRequest
     /\ cli = NoRun
     /\ checks = [r \in 1..MaxPolls |-> NoCheck]
     /\ interval = TRUE
     /\ personaCalls = 0
     /\ component = comp

\* the first job has ended (error or completed), the second is still being
\* scraped with its batch scrape requested, and the page holds both jobs as
\* they are stored
InitPoll == \E st \in {"error", "completed"} : BetweenChecks(st, "scraping", "scraping", "Home")

PollGets == {PollGet(r, i) : r \in 1..MaxPolls, i \in 1..2}

NextPoll ==
  \/ PollTick
  \/ \E r \in 1..MaxPolls, i \in 1..2 : PollArrives(r, i)
  \/ \E r \in 1..MaxPolls, i \in 1..2 : PollFetchResolves(r, i)
  \/ resetAndStartNew
  \/ \E ok \in BOOLEAN : ContextsFetched(ok)
  \/ \E outcome \in {"created", "empty", "throws"} : PersonaReturns(outcome)
  \/ \E p \in PollGets : StoreStep(p)
  \/ \E p \in PollGets, outcome \in {"throws", "pending", "failed", "completed"}, mds \in PageLists :
       BatchStatusReturns(p, outcome, mds)
  \/ \E p \in PollGets : StatusResponds(p)
  \/ \E p \in PollGets : SummarizeStart(p)
  \/ \E p \in PollGets, ok \in BOOLEAN, text \in Completions : PageSummaryReturns(p, ok, text)
  \/ \E p \in PollGets, ok \in BOOLEAN, text \in Completions : FinalContextReturns(p, ok, text)
  \/ \E p \in PollGets : SummarizeSavesContext(p)

SpecPoll == InitPoll /\ [][NextPoll]_vars

\* The first job has ended; the summarization of the second has ended after
\* the page's last status check, which saw it 'summarizing'.
InitOverlap ==
  \E st \in {"error", "completed"} : BetweenChecks(st, "completed", "summarizing", "Home")

NextOverlap ==
  \/ PollTick
  \/ \E r \in 1..MaxPolls, i \in 1..2 : PollArrives(r, i)
  \/ \E r \in 1..MaxPolls, i \in 1..2 : PollFetchResolves(r, i)
  \/ resetAndStartNew
  \/ \E ok \in BOOLEAN : ContextsFetched(ok)
  \/ \E outcome \in {"created", "empty", "throws"} : PersonaReturns(outcome)

SpecOverlap == InitOverlap /\ [][NextOverlap]_vars

\* the page without polling, with its reset
InitReset == InitBatch /\ variant = "single"

NextReset ==
  \/ Tick
  \/ \E u \in Inputs : TypeUrl(u)
  \/ startScrapingAll
  \/ \E i \in 1..MaxUrls : StartArrives(i)
  \/ \E i \in 1..MaxUrls : StartFetchResolves(i)
  \/ \E i \in 1..MaxUrls : StatusArrives(i)
  \/ \E i \in 1..MaxUrls : StatusFetchResolves(i)
  \/ \E ok \in BOOLEAN : ContextsFetched(ok)
  \/ \E outcome \in {"created", "empty", "throws"} : PersonaReturns(outcome)
  \/ resetAndStartNew
  \/ \E u \in Urls : removeUrl(u)
  \/ \E p \in Procs : StoreStep(p)
  \/ \E p \in BatchStarts, ok \in BOOLEAN, md \in Markdowns : ScrapeReturns(p, ok, md)
  \/ \E p \in BatchStarts : ContextSaved(p)
  \/ \E p \in BatchStarts : SingleResponds(p)

SpecReset == InitReset /\ [][NextReset]_vars

\* ---------------------------------------- PersonaManager: polling one job
\* the effect on [scrapingJob]: an interval while the job is neither completed
\* nor error
ManagerEffect(jobs) == Len(jobs) > 0 /\ NonTerminal(jobs[1])

\* the interval fires: checkScrapingStatus fetches the status of the
\* scrapingJob of the render that set the interval
ManagerTick ==
  /\ component = "PersonaManager"
  /\ interval
  /\ polls < MaxPolls
  /\ polls' = polls + 1
  /\ checks' = [checks EXCEPT ![polls + 1] =
                  [jobs |-> scrapingJobs,
                   fetch |-> [i \in 1..MaxUrls |->
                                IF i <= Len(scrapingJobs) THEN "poll_sent" ELSE "none"]]]
  /\ UNCHANGED <<serverVars, urlList, isScraping, uiError, scrapingJobs, batch, fetch,
                 showConversation, personaId, assembly, tavus, cli, component, interval,
                 personaCalls>>

\* the status response of check r reaches the component: an ok response is
\* the new scrapingJob and the effect runs again, another one changes nothing
ManagerFetchResolves(r) ==
  /\ component = "PersonaManager"
  /\ checks[r].fetch[1] = "poll_wait"
  /\ resp[PollGet(r, 1)] # NoResponse
  /\ checks' = [checks EXCEPT ![r].fetch[1] = "poll_done"]
  /\ IF resp[PollGet(r, 1)].code = 200
       THEN /\ scrapingJobs' = <<resp[PollGet(r, 1)].job>>
            /\ interval' = ManagerEffect(<<resp[PollGet(r, 1)].job>>)
       ELSE UNCHANGED <<scrapingJobs, interval>>
  /\ UNCHANGED <<serverVars, urlList, isScraping, uiError, batch, fetch, showConversation,
                 personaId, assembly, polls, tavus, cli, component, personaCalls>>

\* the page or PersonaManager between two status checks
InitPolling ==
  \/ InitPoll
  \/ BetweenChecks("completed", "scraping", "scraping", "PersonaManager")

NextPolling ==
  \/ NextPoll
  \/ ManagerTick
  \/ \E r \in 1..MaxPolls : ManagerFetchResolves(r)

SpecPolling == InitPolling /\ [][NextPolling]_vars

\* ------------------------------------------------- the Tavus API client
\* The endpoints the client's methods pass to makeRequest, cut where
\* endpoint.includes('/personas') looks.
Endpoints ==
  {<<"/v2", "/conversations">>, <<"/v2", "/conversations", "/c1", "/end">>,
   <<"/v2", "/personas">>, <<"/v2", "/personas", "/p1">>, <<"/v2", "/replicas">>}

\* String.prototype.includes, on a text cut so that the part looked for is one
\* piece of it
Includes(text, part) == \E i \in 1..Len(text) : text[i] = part

ConcurrencyPhrase == "maximum concurrent conversations"

\* The responses the API can give: a status and a body.  A body is the text
\* response.text() resolves to and what JSON.parse makes of it: an object with
\* or without a message field, null, or a SyntaxError.
Statuses == {200, 400, 429, 500}
JsonObject(text, message) == [text |-> text, json |-> "object", message |-> message]
JsonNull == [text |-> <<"null">>, json |-> "null", message |-> None]
NotJson(text) == [text |-> text, json |-> "invalid", message |-> None]
Bodies ==
  {JsonObject(<<"{message:", "User has reached ", ConcurrencyPhrase, "}">>,
              Some(<<"User has reached ", ConcurrencyPhrase>>)),
   JsonObject(<<"{message:", "Invalid replica_id", "}">>, Some(<<"Invalid replica_id">>)),
   JsonObject(<<"{error:", ConcurrencyPhrase, "}">>, None),
   JsonObject(<<"{persona_id:", "p1", "}">>, None),
   JsonNull,
   NotJson(<<"User has reached ", ConcurrencyPhrase>>),
   NotJson(<<"Bad Gateway">>)}

ConcurrencyError ==
  <<"You have reached the maximum number of concurrent conversations. Please end an existing conversation before starting a new one.">>
TimeoutError ==
  <<"Tavus API request timed out. Please check your connection and API credentials.">>
NetworkError == <<"TypeError: Failed to fetch">>
NullError == <<"TypeError: Cannot read properties of null">>
JsonSyntaxError == <<"SyntaxError: Unexpected token">>
\* `Tavus API error: ${response.status} - ${errorData.message || errorText}`
TavusApiError(status, detail) == <<"Tavus API error: ", status, " - ">> \o detail

Returns(value) == [kind |-> "returns", value |-> value]
Throws(error) == [kind |-> "throws", value |-> error]

\* errorData: JSON.parse(errorText), or { message: errorText } when that throws
ErrorData(body) ==
  IF body.json = "invalid" THEN JsonObject(body.text, Some(body.text)) ELSE body

\* the persona special case tested before the concurrency limit
HandleErrorResponse_PersonaFirst(endpoint, status, body) ==
  LET errorData == ErrorData(body)
  IN IF errorData.json = "null" THEN Throws(NullError)
     ELSE IF Includes(endpoint, "/personas") /\ status = 400 THEN Returns(<<>>)
     ELSE IF /\ status = 400
             /\ errorData.message # None
             /\ Includes(errorData.message[1], ConcurrencyPhrase)
       THEN Throws(ConcurrencyError)
     ELSE Throws(TavusApiError(status, IF errorData.message # None /\ Truthy(errorData.message[1])
                                         THEN errorData.message[1] ELSE body.text))

\* the `if (!response.ok)` branch once the body has been read
HandleErrorResponse(endpoint, status, body) ==
  LET errorData == ErrorData(body)
  IN IF errorData.json = "null" THEN Throws(NullError)
     ELSE IF /\ status = 400
             /\ errorData.message # None
             /\ Includes(errorData.message[1], ConcurrencyPhrase)
       THEN Throws(ConcurrencyError)
     ELSE IF Includes(endpoint, "/personas") /\ status = 400 THEN Returns(<<>>)
     ELSE Throws(TavusApiError(status, IF errorData.message # None /\ Truthy(errorData.message[1])
                                         THEN errorData.message[1] ELSE body.text))

TavusFrame == UNCHANGED <<serverVars, urlList, isScraping, uiError, scrapingJobs, batch,
                          fetch, showConversation, personaId, assembly, polls, cli, component, checks, interval, personaCalls>>

\* makeRequest(endpoint, ...) arms the 30 s timer and awaits fetch
makeRequest(endpoint) ==
  /\ tavus.pc = "idle"
  /\ tavus' = [tavus EXCEPT !.pc = "fetch", !.endpoint = endpoint]
  /\ TavusFrame

\* fetch resolves with the response's status and headers: clearTimeout, and
\* the body is awaited, response.text() when !response.ok, else response.json()
TavusFetchResolves(status) ==
  /\ tavus.pc = "fetch"
  /\ tavus' = [tavus EXCEPT !.pc = IF status \in 200..299 THEN "json" ELSE "text",
                            !.response = [status |-> status, body |-> None]]
  /\ TavusFrame

\* the timer fires while fetch is pending: controller.abort(), fetch rejects
\* with an AbortError, which the catch turns into the time-out error
TavusTimerFires ==
  /\ tavus.pc = "fetch"
  /\ tavus' = [tavus EXCEPT !.pc = "done", !.result = Throws(TimeoutError)]
  /\ TavusFrame

\* fetch, or the reading of the body, rejects: the catch throws the error on
TavusNetworkFails ==
  /\ tavus.pc \in {"fetch", "text", "json"}
  /\ tavus' = [tavus EXCEPT !.pc = "done", !.result = Throws(NetworkError)]
  /\ TavusFrame

\* response.text() resolves with the body
TavusErrorText(body) ==
  /\ tavus.pc = "text"
  /\ tavus' = [tavus EXCEPT !.pc = "done",
                            !.response.body = Some(body),
                            !.result = HandleErrorResponse(tavus.endpoint, tavus.response.status,
                                                           body)]
  /\ TavusFrame

\* response.json() resolves with the parsed body, or rejects
TavusJson(body) ==
  /\ tavus.pc = "json"
  /\ tavus' = [tavus EXCEPT !.pc = "done",
                            !.response.body = Some(body),
                            !.result = IF body.json = "invalid"
                                         THEN Throws(JsonSyntaxError)
                                         ELSE Returns(body)]
  /\ TavusFrame

InitTavus == InitCommon /\ variant = "single" /\ overlap = TRUE /\ batch = "off"

NextTavus ==
  \/ \E endpoint \in Endpoints : makeRequest(endpoint)
  \/ \E status \in Statuses : TavusFetchResolves(status)
  \/ TavusTimerFires
  \/ TavusNetworkFails
  \/ \E body \in Bodies : TavusErrorText(body)
  \/ \E body \in Bodies : TavusJson(body)

SpecTavus == InitTavus /\ [][NextTavus]_vars

\* ------------------------------------------------ the command-line tool
\* tavus-cli.js, createContext from its call of crawlWebsite on.
CliSite == <<"https:", "//", "site.com">>
CliPageUrls == {<<"https:", "//", "site.com", "/p1">>, <<"https:", "//", "site.com", "/p2">>}
\* batchAnswers.pagesList.split('\n').filter(url => url.trim())
CliPageLists == UNION {[1..n -> CliPageUrls] : n \in 0..MaxCliPages}
\* data.markdown || data.content || ''
CliContents == {<<>>, <<"md">>}

CliFrame == UNCHANGED <<serverVars, urlList, isScraping, uiError, scrapingJobs, batch,
                        fetch, showConversation, personaId, assembly, polls, tavus, component, checks,
                        interval, personaCalls>>

\* console.log / console.error, process.exit(1)
CliFails(c, why) == [c EXCEPT !.pc = "exited", !.failure = why, !.exit = Some(1)]

\* crawlWebsite has returned scrapedPages: exit 1 when there is none, else
\* await generateKnowledgeBase(...)
AfterCrawl(c) ==
  IF Len(c.scrapedPages) = 0 THEN CliFails(c, "no pages") ELSE [c EXCEPT !.pc = "kb"]

\* the batch loop, had it let a failed page end the run
AfterPageScrape_Rethrow(c, outcome, content) ==
  LET url == c.pages[c.i]
      d == [c EXCEPT !.attempted = Append(@, url),
                     !.scrapedPages = IF outcome = "ok"
                                        THEN Append(@, [url |-> url, content |-> content])
                                        ELSE @]
  IN IF outcome = "throws" THEN CliFails(d, "scrape")
     ELSE IF c.i < Len(c.pages) THEN [d EXCEPT !.i = c.i + 1] ELSE AfterCrawl(d)

\* one turn of `for (const pageUrl of pages)`: scrapeUrl resolves with
\* success and data (the page is pushed), resolves without (nothing), or
\* throws (the catch warns); then the next page, or the return
AfterPageScrape(c, outcome, content) ==
  LET url == c.pages[c.i]
      d == [c EXCEPT !.attempted = Append(@, url),
                     !.scrapedPages = IF outcome = "ok"
                                        THEN Append(@, [url |-> url, content |-> content])
                                        ELSE @]
  IN IF c.i < Len(c.pages) THEN [d EXCEPT !.i = c.i + 1] ELSE AfterCrawl(d)

\* createContext calls crawlWebsite(websiteUrl, mode, pages, maxPages), which
\* runs up to its first await: crawlUrl in crawl mode, the first page's
\* scrapeUrl in batch mode with pages, else scrapeUrl(websiteUrl)
crawlWebsite(mode, pages) ==
  /\ cli.pc = "idle"
  /\ cli' = [cli EXCEPT !.mode = mode, !.pages = pages,
                        !.pc = IF mode = "crawl" THEN "crawl"
                               ELSE IF mode = "batch" /\ Len(pages) > 0 THEN "scrape"
                               ELSE "single",
                        !.i = IF mode = "batch" /\ Len(pages) > 0 THEN 1 ELSE 0]
  /\ CliFrame

\* crawlUrl returns its pages, cut to maxPages; or success is false; or it
\* throws, which crawlWebsite throws on to createContext's catch
CliCrawlReturns(outcome, n) ==
  /\ cli.pc = "crawl"
  /\ cli' = CASE outcome = "ok" ->
                   AfterCrawl([cli EXCEPT !.attempted = <<CliSite>>,
                                          !.scrapedPages =
                                             [k \in 1..n |-> [url |-> CliSite, content |-> <<"md">>]]])
              [] outcome = "nodata" -> AfterCrawl([cli EXCEPT !.attempted = <<CliSite>>])
              [] outcome = "throws" -> CliFails([cli EXCEPT !.attempted = <<CliSite>>], "scrape")
  /\ CliFrame

\* a page's scrapeUrl settles in batch mode
CliPageScrapeReturns(outcome, content) ==
  /\ cli.pc = "scrape"
  /\ cli' = AfterPageScrape(cli, outcome, content)
  /\ CliFrame

\* scrapeUrl(websiteUrl) settles in single-page mode (and in batch mode
\* without pages)
CliSingleScrapeReturns(outcome, content) ==
  /\ cli.pc = "single"
  /\ cli' = CASE outcome = "ok" ->
                   AfterCrawl([cli EXCEPT !.attempted = <<CliSite>>,
                                          !.scrapedPages = <<[url |-> CliSite, content |-> content]>>])
              [] outcome = "nodata" -> AfterCrawl([cli EXCEPT !.attempted = <<CliSite>>])
              [] outcome = "throws" -> CliFails([cli EXCEPT !.attempted = <<CliSite>>], "scrape")
  /\ CliFrame

\* generateKnowledgeBase resolves and saveContext writes current-context.json
\* (writeFileSync, which can throw), or generateKnowledgeBase throws; then the
\* prompt for the next action is awaited
CliKnowledgeBaseReturns(outcome) ==
  /\ cli.pc = "kb"
  /\ cli' = CASE outcome = "saved" ->
                   [cli EXCEPT !.pc = "prompt",
                               !.context = Some([pagesIncluded |-> Len(cli.scrapedPages)])]
              [] outcome = "llm throws" -> CliFails(cli, "knowledge base")
              [] outcome = "write throws" -> CliFails(cli, "write")
  /\ CliFrame

\* the user chooses Exit: createContext returns and the process ends
CliExits ==
  /\ cli.pc = "prompt"
  /\ cli' = [cli EXCEPT !.pc = "exited", !.exit = Some(0)]
  /\ CliFrame

InitCli == InitCommon /\ variant = "single" /\ overlap = TRUE /\ batch = "off"

NextCli ==
  \/ \E mode \in {"crawl", "batch", "single"}, pages \in CliPageLists :
       /\ mode # "batch" => pages = <<>>
       /\ crawlWebsite(mode, pages)
  \/ \E outcome \in {"ok", "nodata", "throws"}, n \in 0..MaxCliPages : CliCrawlReturns(outcome, n)
  \/ \E outcome \in {"ok", "nodata", "throws"}, content \in CliContents :
       CliPageScrapeReturns(outcome, content)
  \/ \E outcome \in {"ok", "nodata", "throws"}, content \in CliContents :
       CliSingleScrapeReturns(outcome, content)
  \/ \E outcome \in {"saved", "llm throws", "write throws"} : CliKnowledgeBaseReturns(outcome)
  \/ CliExits

SpecCli == InitCli /\ [][NextCli]_vars

\* ------------------------------------------------------ the server's claims
\* the job table and the context table as last written in full
DurableFile(data) == OkFile(data)

\* C1: a job whose persisted status is completed or error is never written
\* again with a different status or any other field changed: every later
\* content of the job table holds the same record.
C1_TerminalIsAbsorbing ==
  [][\A i \in 1..Len(durableJobs) :
       Terminal(durableJobs[i].status) =>
         \E k \in 1..Len(durableJobs') : durableJobs'[k] = durableJobs[i]]_vars

Rank(st) ==
  CASE st = "mapping" -> 1
    [] st = "scraping" -> 2
    [] st = "summarizing" -> 3
    [] st = "completed" -> 4
    [] OTHER -> 0

MayFollow(old, new) ==
  \/ new = old
  \/ ~Terminal(old) /\ new = "error"
  \/ ~Terminal(old) /\ new # "error" /\ Rank(new) > Rank(old)

\* C2: from one content of the job table to the next, the status of every job
\* stays, moves forward along mapping -> scraping -> summarizing -> completed,
\* or becomes error from a non-terminal status.
C2_StatusIsMonotone ==
  [][\A i \in 1..Len(durableJobs), k \in 1..Len(durableJobs') :
       durableJobs'[k].id = durableJobs[i].id =>
         MayFollow(durableJobs[i].status, durableJobs'[k].status)]_vars

\* C6: a job is persisted, and an external call is made, only for a URL that
\* parses as an absolute URL.
C6_OnlyValidUrlsStart ==
  /\ \A i \in 1..Len(durableJobs) : ParsesAsUrl(durableJobs[i].websiteUrl)
  /\ \A p \in Procs : pc[p] \in {"post_map", "post_scrape", "bg_scrape"} => ParsesAsUrl(req[p])

\* C8: a failure of site mapping, page scrape, batch scrape or summarization
\* never answers the start request with an error, and once the process that
\* met it has finished, the URL's job is in the table with status error and
\* the failure's message.
C8_ExternalFailureIsRecorded ==
  \A p \in Procs :
    (extFailure[p] # None /\ extFailure[p] # Some(StatusError)) =>
      /\ resp[p].code # 500
      /\ pc[p] = "done" =>
           \E i \in 1..Len(durableJobs) :
             /\ durableJobs[i].status = "error"
             /\ durableJobs[i].error = extFailure[p]

\* C9: no job is persisted as completed with an empty pages sequence.
C9_CompletedHasPages ==
  \A i \in 1..Len(getAllScrapingJobs(jobsFile)) :
    getAllScrapingJobs(jobsFile)[i].status = "completed" =>
      getAllScrapingJobs(jobsFile)[i].pages # <<>>

\* C10: whenever the job table holds a completed job for a URL, the context
\* table holds a record for that URL whose context is not empty.
C10_CompletedHasContext ==
  \A i \in 1..Len(durableJobs) :
    durableJobs[i].status = "completed" =>
      LET found == getPersonaContext(DurableFile(durableCtxs), durableJobs[i].websiteUrl)
      IN found # None /\ Truthy(found[1].context)

\* C11: the context table holds a record for a URL only when a job for that
\* URL has already been written to the job table as completed.
C11_ContextOnlyAfterCompleted ==
  \A i \in 1..Len(getAllPersonaContexts(personasFile)) :
    getAllPersonaContexts(personasFile)[i].websiteUrl \in everCompleted

\* C13: every record of the context table has a non-empty context.
C13_ContextIsNeverEmpty ==
  \A i \in 1..Len(getAllPersonaContexts(personasFile)) :
    Truthy(getAllPersonaContexts(personasFile)[i].context)

\* C14: in the step in which a start request is answered with a job id, the
\* job table holds that job with a status that is not terminal.
C14_StartIsFireAndForget ==
  [][\A p \in StartProcs :
       (resp[p] = NoResponse /\ resp'[p].code = 200) =>
         \E i \in 1..Len(durableJobs') :
           /\ Some(durableJobs'[i].id) = resp'[p].jobId
           /\ ~Terminal(durableJobs'[i].status)]_vars

\* C15: a job whose id a start request has returned is eventually in the job
\* table as completed or error, also when no status request is ever made.
C15_StartedJobEnds ==
  \A p \in StartProcs :
    (resp[p].code = 200) ~>
      (\E i \in 1..Len(durableJobs) :
         Some(durableJobs[i].id) = resp[p].jobId /\ Terminal(durableJobs[i].status))

\* C16: when the content source has reported a failed batch to a status
\* request, the request ends with the job in the table as error.
C16_FailedBatchEndsTheJob ==
  \A p \in GetProcs :
    (extFailure[p] = Some(BatchFailed) /\ pc[p] = "done") =>
      \E i \in 1..Len(durableJobs) :
        durableJobs[i].id = req[p] /\ durableJobs[i].status = "error"

\* a process that is waiting for an external client's answer
AwaitsExternal(p) ==
  pc[p] \in {"post_map", "bg_scrape", "post_scrape", "get_check",
             "sum_page", "sum_final", "sc_page", "sc_final"}

\* C18: while a task waits for an external client, the job table holds the
\* task's job with the status the task has assigned to it.
C18_StatusSavedBeforeNextCall ==
  \A p \in Procs :
    (AwaitsExternal(p) /\ job[p] # NoJob) =>
      \E i \in 1..Len(durableJobs) :
        durableJobs[i].id = job[p].id /\ durableJobs[i].status = job[p].status

\* C17: a step of a status request, or of anything it started, leaves the job
\* table and the context table as they were, and starts no background task.
C17_StatusIsReadOnly ==
  [][\A p \in GetProcs :
       pc'[p] # pc[p] =>
         /\ jobsFile' = jobsFile
         /\ personasFile' = personasFile
         /\ pc'[p] # "sum_timer"]_vars

\* C24: in every state of the job table as written, a job that is not
\* completed has no finalContext, and a finalContext that has been written is
\* never followed by another value for the same job.
C24_FinalContextSetOnce ==
  [][\A i \in 1..Len(durableJobs') :
       /\ durableJobs'[i].finalContext # None => durableJobs'[i].status = "completed"
       /\ \A k \in 1..Len(durableJobs) :
            (durableJobs[k].id = durableJobs'[i].id /\ durableJobs[k].finalContext # None)
              => durableJobs'[i].finalContext = durableJobs[k].finalContext]_vars

\* C25: in every state of the job table, as read and as last written in
\* full, a job carries an error message only if its status is error.
C25_ErrorOnlyWithErrorStatus ==
  /\ \A i \in 1..Len(getAllScrapingJobs(jobsFile)) :
       getAllScrapingJobs(jobsFile)[i].error # None
         => getAllScrapingJobs(jobsFile)[i].status = "error"
  /\ \A i \in 1..Len(durableJobs) :
       durableJobs[i].error # None => durableJobs[i].status = "error"

\* a job is stored with status error and its message
C25_Witness ==
  \E i \in 1..Len(getAllScrapingJobs(jobsFile)) :
    /\ getAllScrapingJobs(jobsFile)[i].status = "error"
    /\ getAllScrapingJobs(jobsFile)[i].error # None

\* the pages of a job that have text, and where a task stands in summarizing
PagesWithText(pages) == {k \in 1..Len(pages) : Truthy(pages[k].markdown)}
AtPageCall(p) == pc[p] \in {"sum_page", "sc_page"}
AtFinalCall(p) == pc[p] \in {"sum_final", "sc_final"}

\* C28: summarizing calls the completion client for the pages with text one by
\* one in page order, each page once for its job, and then once with the
\* summaries of all these pages.
C28_SummarizationSequencing ==
  \A p \in Procs :
    LET pages == job[p].pages
    IN /\ AtPageCall(p) =>
            /\ sum[p].i \in PagesWithText(pages)
            /\ \A k \in PagesWithText(pages) : (pages[k].summary # None) <=> (k < sum[p].i)
       /\ AtFinalCall(p) =>
            /\ \A k \in PagesWithText(pages) : pages[k].summary # None
            /\ Len(sum[p].summaries) = Cardinality(PagesWithText(pages))
       /\ \A q \in Procs \ {p} :
            ((AtPageCall(p) \/ AtFinalCall(p)) /\ (AtPageCall(q) \/ AtFinalCall(q)))
              => job[p].id # job[q].id

\* a summarizePages task of the status route: scheduled by setTimeout,
\* awaiting a completion call, or awaiting savePersonaContext
SummarizeTask(p) == pc[p] \in {"sum_timer", "sum_page", "sum_final", "sum_persona"}

\* C33: no two summarizePages tasks exist for one job, whatever the number of
\* status requests in flight.
C33_OneSummarizeTaskPerJob ==
  \A p \in Procs : \A q \in Procs \ {p} :
    (SummarizeTask(p) /\ SummarizeTask(q)) => job[p].id # job[q].id

\* C29: the page text a per-page completion call is given is the first
\* min(4000, length) characters of the page's markdown, so never more than
\* 4000 characters.
C29_PageInputIsBoundedPrefix ==
  \A p \in Procs :
    AtPageCall(p) =>
      LET markdown == job[p].pages[sum[p].i].markdown
          n == IF Len(markdown) < 4000 THEN Len(markdown) ELSE 4000
      IN /\ sum[p].input.kind = "page"
         /\ Len(sum[p].input.text) = n
         /\ \A k \in 1..n : sum[p].input.text[k] = markdown[k]

\* a page longer than 4000 characters is being summarized
C29_Witness ==
  \E p \in Procs :
    /\ AtPageCall(p)
    /\ Len(job[p].pages[sum[p].i].markdown) > 4000
    /\ Len(sum[p].input.text) = 4000

\* C30: no job is stored with more pages than the max-page count, whatever
\* the content source returns.
C30_PageCountIsBounded ==
  \A i \in 1..Len(durableJobs) : Len(durableJobs[i].pages) <= DefaultMaxPages

\* -------------------------------------------------------- the page's claims
\* C5: the start requests of one batch that were answered with a job id were
\* answered with different ids, and a record with such an id carries the URL
\* that request submitted.
C5_JobIdsAreUnique ==
  /\ \A i \in BatchUrls, k \in BatchUrls :
       (i # k /\ resp[BatchStart(i)].code = 200 /\ resp[BatchStart(k)].code = 200) =>
         resp[BatchStart(i)].jobId # resp[BatchStart(k)].jobId
  /\ \A i \in BatchUrls, n \in 1..Len(durableJobs) :
       (resp[BatchStart(i)].code = 200 /\ Some(durableJobs[n].id) = resp[BatchStart(i)].jobId) =>
         durableJobs[n].websiteUrl = urlList[i]

\* C7: in a batch where the start of one URL failed, the job the page fetched
\* for another URL is among the jobs the page holds.
C7_PartialFailureIsIsolated ==
  \A i \in BatchUrls, k \in BatchUrls :
    (fetch[i] = "rejected" /\ fetch[k] = "fulfilled" /\ resp[BatchGet(k)].job # None) =>
      Contains(scrapingJobs, resp[BatchGet(k)].job)

\* C19: when the page holds every job of the batch as terminal and at least
\* one as completed, the conversation is shown or session assembly has begun.
C19_ErrorJobsDoNotBlock ==
  (/\ batch = "settled"
   /\ Every(scrapingJobs, {"completed", "error"})
   /\ SomeJob(scrapingJobs, {"completed"})) =>
     showConversation \/ assembly.pc # "off"

\* C21: when tavusAPI.createPersona throws or returns a result without
\* persona_id, the page leaves the scraping state and shows the conversation,
\* with no persona id for createConversation.
C21_PersonaFailureDoesNotBlock ==
  [][(PersonaReturns("empty") \/ PersonaReturns("throws")) =>
       /\ showConversation'
       /\ ~isScraping'
       /\ personaId' = None]_vars

\* sub occurs in s as a run of consecutive characters
IsSubstring(sub, s) ==
  \E k \in 0..(Len(s) - Len(sub)) : SubSeq(s, k + 1, k + Len(sub)) = sub

\* C22: the combined context handed to tavusAPI.createPersona contains, for
\* every completed job of the set, the job's URL followed by the job's own
\* finalContext, and does not mention a job that ended in error.
C22_CombinedContextHoldsEachJob ==
  assembly.pc = "persona" =>
    \A i \in 1..Len(assembly.jobs) :
      LET entry == assembly.jobs[i]
      IN /\ (StatusOf(entry) = "completed" /\ entry[1].finalContext # None) =>
              IsSubstring(UrlOf(entry) \o <<"\n">> \o entry[1].finalContext[1],
                          assembly.combined)
         /\ StatusOf(entry) = "error" => ~IsSubstring(UrlOf(entry), assembly.combined)

\* C26: no step of session assembly (createPersonaFromAllScrapedContent from
\* its call to its end, the read of /api/persona-context included) changes
\* the job table or the persona-context table.
C26_AssemblyOnlyReads ==
  [][assembly' # assembly =>
       UNCHANGED <<jobsFile, personasFile, durableJobs, durableCtxs>>]_vars

\* assembly has run to its end over a table that holds a context
C26_Witness ==
  /\ assembly.pc = "done"
  /\ showConversation
  /\ Len(getAllPersonaContexts(personasFile)) >= 1

\* C20: when the batch has settled with every job terminal and none
\* completed, the conversation is shown without a persona, or session assembly
\* is under way, and no persona-creation error is set.
C20_DegradedSessionIsShown ==
  (/\ batch = "settled"
   /\ Every(scrapingJobs, {"completed", "error"})
   /\ ~SomeJob(scrapingJobs, {"completed"})) =>
     /\ showConversation \/ assembly.pc \in {"contexts", "persona"}
     /\ showConversation => personaId = None
     /\ uiError = None

\* C34: for the batch on the page, tavusAPI.createPersona is called at most
\* once, also when a tick of the interval fires during a status check.
C34_PersonaCreatedOncePerBatch == personaCalls <= 1

\* the state resetAndStartNew leaves the page in
UiIsReset == ~showConversation /\ personaId = None /\ scrapingJobs = <<>>

\* C35: a page that is reset stays reset for as long as no batch is started:
\* no step other than startScrapingAll takes showConversation, personaId or
\* scrapingJobs away from false, null and the empty list.
C35_UiStaysReset ==
  [][(batch = "editing" /\ batch' = "editing" /\ UiIsReset) => UiIsReset']_vars

NoDuplicates(list) == \A i, j \in 1..Len(list) : list[i] = list[j] => i = j
WellFormed(list) == NoDuplicates(list) /\ \A i \in 1..Len(list) : ParsesAsUrl(list[i])

\* C36: the list of URLs never holds a URL twice nor a string that does not
\* parse as a URL; addUrl with an empty, unparsable or already listed URL
\* leaves the list as it is and sets an error; removeUrl takes the given URL
\* out of the list and nothing else.
C36_UrlListIsWellFormed ==
  /\ WellFormed(urlList)
  /\ [][/\ WellFormed(urlList')
        /\ \A u \in Inputs :
             /\ (addUrl(u) /\ (~Truthy(u) \/ ~ParsesAsUrl(u) \/ Contains(urlList, u)))
                  => (urlList' = urlList /\ uiError' # None)
             /\ removeUrl(u) =>
                  /\ ~Contains(urlList', u)
                  /\ \A v \in Urls \ {u} : Contains(urlList', v) <=> Contains(urlList, v)
                  /\ Len(urlList') = Len(urlList) - 1]_vars

\* UrlA was removed from the list of both URLs, and a text that is no URL
\* was refused afterwards
C36_Witness ==
  /\ urlList = <<UrlB>>
  /\ uiError = Some("Please enter a valid URL")
  /\ batch = "editing"

Quiescent == \A p \in Procs : pc[p] = "idle"
RecordsWithId(file, id) ==
  {i \in 1..Len(getAllScrapingJobs(file)) : getAllScrapingJobs(file)[i].id = id}
TheOne(S) == CHOOSE x \in S : TRUE

\* C3: after overlapping saves have all returned, every job id whose save has
\* returned is in the job table with a value that was saved under that id, and
\* every URL whose context save has returned is in the context table likewise.
C3_DifferentKeysNeverConflict ==
  Quiescent =>
    /\ \A id \in JobIds :
         savedJobs[id] # {} =>
           /\ getScrapingJob(jobsFile, id) # None
           /\ getScrapingJob(jobsFile, id)[1] \in savedJobs[id]
    /\ \A u \in Urls :
         savedCtxs[u] # {} =>
           /\ getPersonaContext(personasFile, u) # None
           /\ getPersonaContext(personasFile, u)[1] \in savedCtxs[u]

\* C4: with one call at a time, between calls the table holds exactly one
\* record per saved id and none for any other id, getScrapingJob returns the
\* job most recently saved under the id (so a save leaves every other id's
\* record as it was), and the status route answers 404 for an id never saved.
C4_UpsertByKey ==
  Quiescent =>
    \A id \in JobIds :
      IF savedJobs[id] = {}
        THEN /\ RecordsWithId(jobsFile, id) = {}
             /\ getScrapingJob(jobsFile, id) = None
             /\ StatusResponse(jobsFile, id) = Response(404)
        ELSE /\ Cardinality(RecordsWithId(jobsFile, id)) = 1
             /\ getScrapingJob(jobsFile, id) = Some(TheOne(savedJobs[id]))
             /\ StatusResponse(jobsFile, id) = JobResponse(TheOne(savedJobs[id]))

\* three saves of jobs have returned and the table holds two records: one of
\* the saves replaced a record
C4_Witness ==
  /\ Quiescent
  /\ calls = 3
  /\ personasFile = AbsentFile
  /\ \A p \in Procs : resp[p] = NoResponse
  /\ Len(getAllScrapingJobs(jobsFile)) = 2

RecordsWithUrl(file, url) ==
  {i \in 1..Len(getAllPersonaContexts(file)) : getAllPersonaContexts(file)[i].websiteUrl = url}

\* C12: the context table holds at most one record per websiteUrl, during and
\* after any overlapping savePersonaContext calls.
C12_OneContextPerUrl ==
  \A u \in Urls :
    /\ Cardinality(RecordsWithUrl(personasFile, u)) <= 1
    /\ Cardinality(RecordsWithUrl(OkFile(durableCtxs), u)) <= 1

\* two different contexts were saved for one URL, both calls have returned and
\* the table holds one record for the URL
C12_Witness ==
  /\ Quiescent
  /\ \E u \in Urls :
       /\ Cardinality(savedCtxs[u]) = 2
       /\ Cardinality(RecordsWithUrl(personasFile, u)) = 1

\* C27: a saveScrapingJob that finds the job file unreadable (opened and not
\* yet filled by another writer, so that JSON.parse throws) fails: it prepares
\* no text to write and does not go on to open the file for writing.
C27_UnreadableStoreFailsTheSave ==
  [][\A p \in Procs :
       (pc[p] = "save_read" /\ pc'[p] # "save_read" /\ jobsFile.state = "torn") =>
         /\ pc'[p] # "save_open"
         /\ wbuf'[p] = wbuf[p]]_vars

\* ------------------------------------------------------ the client's claims
\* the API has answered 400 with a message that names the concurrency limit
ConcurrencyRejection ==
  /\ tavus.pc = "done"
  /\ tavus.response # <<>>
  /\ tavus.response.status = 400
  /\ tavus.response.body # None
  /\ LET errorData == ErrorData(tavus.response.body[1])
     IN errorData.message # None /\ Includes(errorData.message[1], ConcurrencyPhrase)

\* C23: a request the API rejects with the concurrency-limit message makes
\* makeRequest throw the concurrency-limit error, never the generic
\* 'Tavus API error' and never an empty result, whatever the endpoint.
C23_ConcurrencyLimitIsSurfaced ==
  ConcurrencyRejection => tavus.result = Throws(ConcurrencyError)

\* createPersona is rejected with the concurrency-limit message
C23_Witness ==
  /\ ConcurrencyRejection
  /\ Includes(tavus.endpoint, "/personas")
  /\ tavus.result = Throws(ConcurrencyError)

\* C32: a non-success response to a request that is not a persona creation
\* (here: any endpoint other than '/v2/personas', which createPersona and
\* listPersonas share) makes makeRequest throw.
C32_OnlyPersonaCreationIsSwallowed ==
  (/\ tavus.pc = "done"
   /\ tavus.response # <<>>
   /\ tavus.response.status \notin 200..299
   /\ tavus.endpoint # <<"/v2", "/personas">>)
    => tavus.result.kind = "throws"

\* ------------------------------------------- the command-line tool's claims
BatchRun == cli.mode = "batch" /\ Len(cli.pages) > 0
ScrapingOver == cli.pc \in {"kb", "prompt", "exited"}

====
